---------------------------- MODULE Spec2Model ----------------------------
(***************************************************************************)
(* Per-event mode of the headline service: the ingestion generator of      *)
(* src/app/stream.py (connect / read / backoff), the producer loop and the *)
(* broadcast hub of src/app/api.py (recent buffer, subscriber queues, SSE  *)
(* readers, shutdown flag, /recent query).                                 *)
(*                                                                         *)
(* Threads.  The producer (_producer_loop, which drives event_generator    *)
(* synchronously through `for ev in gen`) runs on a worker thread          *)
(* (api.py:159); the HTTP handlers and the SSE readers run on the server's *)
(* event loop.  One step of the model is one operation on shared state:    *)
(* set.add / set.discard / list(set) / deque.append / list(deque) are      *)
(* single interpreter-level calls; Queue.put_nowait is Python code and is  *)
(* split into its full() test and its append.  Queue.get is one step that   *)
(* needs a queued record: a reader asleep in get() is resumed no earlier    *)
(* than that, and the model lets it be resumed arbitrarily late.            *)
(*                                                                         *)
(* A Record is represented by its publish index 1, 2, 3, ... (every        *)
(* publish builds a fresh dict), so that order, loss and duplication of    *)
(* records are observable.                                                 *)
(***************************************************************************)
EXTENDS Integers, Sequences, FiniteSets, TLC

\* ------------------------------------------------------------------ bounds
\* capacity of the recent buffer; api.py:61 sets 1000, scaled for checking
RECENT_MAX == 3
\* maxsize of a subscriber queue; api.py:214 sets 256, scaled for checking
QUEUE_MAXSIZE == 2
\* number of records the source is allowed to get through the gates
MaxPublish == 4
\* number of consecutive connection/read failures explored
MaxFailures == 6
\* collect_window: seconds of clock time, items of the generator and calls
\* explored
MaxTime == 4
MaxItems == 3
MaxWindows == 3
\* cluster_and_merge: length of the candidate lists explored
MaxCands == 3

\* the client connections (each owns one asyncio.Queue, api.py:214)
Subs == {"q1", "q2"}
\* no queue: value of `cur` outside put_nowait
NoSub == "none"

\* ----------------------------------------------------- program constants
\* stream.py:72 and :144: initial / reset value of backoff (seconds)
BACKOFF_INIT == 2
\* stream.py:139 and :142: cap of the backoff (seconds)
BACKOFF_CAP == 30
\* config.py:45-46: the settings the reconnect loop is documented to use
sse_retry_base_s == 3
sse_retry_max_s == 20
\* waits are kept in hundredths of a second
Centi == 100
\* random.uniform(0.25, 0.75) of stream.py:139, sampled (hundredths)
JitterSet == {25, 50, 75}

\* classes of payloads the source can deliver (stream.py:78-136) that end
\* in `continue` or `yield`: not a message / not JSON / not an object, an
\* object stopped by a gate, an object that passes every gate
Payloads == {"malformed", "filtered", "ok"}
\* payloads on which the read loop raises: json.loads raising something
\* other than JSONDecodeError (stream.py:82-85), and an object on which
\* _size_delta or the int() of the timestamp raises (stream.py:122, :132)
RaisingPayloads == {"unparsable", "badfield"}
NoPayload == "none"

VARIABLES
    recent,        \* _recent: deque(maxlen=RECENT_MAX) of records
    clients,       \* _clients: set of subscriber queues
    queue,         \* contents of each subscriber's asyncio.Queue
    stop_event,    \* _stop_event.is_set()
    ppc,           \* position of the producer thread
    raw,           \* payload being gated by event_generator
    backoff,       \* event_generator's local `backoff` (seconds)
    wait,          \* event_generator's local `wait` while sleeping (1/100 s)
    snap,          \* rest of list(_clients) still to be visited by _broadcast
    cur,           \* queue whose put_nowait passed full() and has not appended
    crashed,       \* the producer ended in `except Exception`
    spc,           \* position of each client's stream handler / event_gen
    disconnected,  \* request.is_disconnected() of each client
    resp,          \* last /recent response: <<n, items>>
    \* history variables (observers, never read by an action's guard)
    published,     \* every record appended to _recent, in order
    received,      \* frames yielded to each client, in order
    dropped,       \* records dropped on QueueFull, per client
    since,         \* publishes broadcast before the client registered
    until,         \* publishes broadcast before the client deregistered
    failures,      \* consecutive failed sessions since start / clean session
    resetFrom,     \* value of `failures` at the last clean end of a session
    observed,      \* the producer has read _stop_event as set
    \* one pass of a payload through the gates of event_generator
    settings,      \* the filter knobs read at stream.py:66-70
    change,        \* `raw`, the object payload, with the fields the loop reads
    gpos,          \* index of the gate to evaluate next
    gstat,         \* "gating", "passed", "rejected", "yielded", "raised"
    evaluated,     \* history: the gates evaluated so far, in order
    event,         \* the events yielded for the payload, in order
    \* one call of the normalizers of cleaning.py
    src_text,      \* the raw title / comment
    cleaned,       \* the outputs, once computed
    \* consecutive collect_window calls on one generator
    win_seconds,   \* the argument `seconds`
    clock,         \* time.time(), in seconds
    wpc,           \* position of the caller: idle / check / fetch / returned
    win_start,     \* the local `start`
    win_out,       \* the local `out`
    win_at,        \* history: the time each item of `out` was appended
    windows,       \* history: the lists returned so far, in call order
    gen_count,     \* number of items the generator has yielded
    gen_live,      \* the generator: "live", "ended" (returned), "raised"
    \* one call of cluster_and_merge
    scored,        \* the argument `scored`: list of <<text, score>>
    sim_thresh,    \* the argument `sim_thresh`, in hundredths
    clusters,      \* the local `clusters`
    cidx,          \* position of the for loop in `scored` (1-based)
    merged,        \* the returned list of <<repr, sum, items>>
    returned,      \* cluster_and_merge has returned
    \* term_maps, score_headline_blend and simple_fallback_headlines on one
    \* window
    batch,         \* the window: list of events [title, comment, delta]
    eidx,          \* position of term_maps' for loop in the window (1-based)
    tbytes,        \* the Counter `tbytes`
    tcounts,       \* the Counter `tcounts`
    headline,      \* the text given to score_headline_blend
    hscore,        \* its result: <<>> before the call, <<score>> after
    fb_args,       \* <<>> or <<n, max_words>> of simple_fallback_headlines
    fb_out,        \* the list simple_fallback_headlines returned
    \* the window loop of main.py's run (on `batch`)
    bsettings,     \* the Settings fields the loop reads
    bpc,           \* position: collect / attempt1 / attempt2 / fallback /
                   \* score / crashed
    llm_calls,     \* history: _call_ollama calls made for this window
    llm_first,     \* history: "none", or "empty" / "items" once the first
                   \* attempt has returned
    llm_failed,    \* history: the collaborator gave this window no headline
    fb_calls,      \* history: simple_fallback_headlines calls, this window
    bpath,         \* history: branch taken by this window
    candidates,    \* the headlines that are scored
    topics,        \* `clusters` after fuse_phrasal_near_dupes
    emitted,       \* the list given to _print_headlines
    bdone,         \* history: number of windows handled
    \* the two sentiment labellers on their own
    compound,      \* the argument of api.py's _sentiment
    label,         \* its result ("none" before the call)
    wscores,       \* _window_mood: the compound score of each window event
    avg,           \* _window_mood: the local `avg` (<<>> before the call)
    mood,          \* _window_mood: the result ("none" before the call)
    \* _producer_loop building one record per event
    rpc,           \* position: next / build / done
    rev,           \* the event `ev` (<<>> before the first one)
    rec,           \* the last record appended and broadcast (<<>>: none)
    rcount,        \* history: number of records appended
    rcrashed,      \* "Producer crashed" was logged
    sent_failed,   \* history: the sentiment call failed for `ev`
    \* cluster_and_merge followed by one call of fuse_phrasal_near_dupes
    fcands,        \* the scored candidates: list of <<text, score>>
    fclusters,     \* the argument `clusters`: list of <<rep, score, members>>
    fuse_thresh,   \* the argument `threshold`, in hundredths
    fused,         \* the local `fused`
    fidx,          \* position of the for loop in `clusters` (1-based)
    fout,          \* the returned list (<<>> before the return)
    freturned,     \* fuse_phrasal_near_dupes has returned
    \* the while loop of simple_fallback_headlines (on `batch`, `fb_args`
    \* and `fb_out`)
    fb_pc,         \* position: idle / loop / done
    fb_samples,    \* the local `samples`
    fb_tops,       \* the local `tops`
    fb_i           \* the local `i`

scoreVars == <<batch, eidx, tbytes, tcounts, headline, hscore, fb_args,
               fb_out>>
batchVars == <<bsettings, bpc, llm_calls, llm_first, llm_failed, fb_calls,
               bpath, candidates, topics, emitted, bdone>>
sentimentVars == <<compound, label, wscores, avg, mood>>
recordVars == <<rpc, rev, rec, rcount, rcrashed, sent_failed>>
fuseVars == <<fcands, fclusters, fuse_thresh, fused, fidx, fout, freturned>>
chunkVars == <<fb_pc, fb_samples, fb_tops, fb_i>>
moreVars == <<fuseVars, chunkVars>>
extVars == <<scoreVars, batchVars, sentimentVars, recordVars, moreVars>>

vars == <<recent, clients, queue, stop_event, ppc, raw, backoff, wait, snap,
          cur, crashed, spc, disconnected, resp, published, received,
          dropped, since, until, failures, resetFrom, observed,
          settings, change, gpos, gstat, evaluated, event, src_text,
          cleaned, win_seconds, clock, wpc, win_start, win_out, win_at,
          windows, gen_count, gen_live, scored, sim_thresh, clusters, cidx,
          merged, returned, extVars>>

\* state of the library functions checked on their own (stream.py gates,
\* collect_window, cleaning.py, scoring.py)
serviceVars == <<recent, clients, queue, stop_event, ppc, raw, backoff, wait,
                 snap, cur, crashed, spc, disconnected, resp, published,
                 received, dropped, since, until, failures, resetFrom,
                 observed>>
gateVars == <<settings, change, gpos, gstat, evaluated, event>>
cleanVars == <<src_text, cleaned>>
windowVars == <<win_seconds, clock, wpc, win_start, win_out, win_at, windows,
                gen_count, gen_live>>
clusterVars == <<scored, sim_thresh, clusters, cidx, merged, returned>>
libVars == <<gateVars, cleanVars, windowVars, clusterVars, extVars>>

hubVars == <<recent, clients, queue, snap, cur, published, received, dropped,
             since, until>>
genVars == <<raw, backoff, wait, failures, resetFrom>>
subVars == <<spc, disconnected>>

\* -------------------------------------------------------------- helpers
Min(a, b) == IF a < b THEN a ELSE b
Max(a, b) == IF a > b THEN a ELSE b

\* s[-n:] of Python for n >= 1
LastN(s, n) == SubSeq(s, Max(1, Len(s) - n + 1), Len(s))

\* mutant of DequeAppend: a deque built without maxlen
DequeAppendNoMaxlen(buf, r) == Append(buf, r)

\* deque(maxlen=RECENT_MAX).append
DequeAppend(buf, r) ==
    IF Len(buf) >= RECENT_MAX THEN Append(Tail(buf), r) ELSE Append(buf, r)

\* mutant of Full: the capacity test is off by one
FullOffByOne(q) == Len(queue[q]) > QUEUE_MAXSIZE

\* asyncio.Queue(maxsize=QUEUE_MAXSIZE).full(), the test put_nowait makes
Full(q) == Len(queue[q]) >= QUEUE_MAXSIZE

\* the seven gates and the payload checks, as a class of the payload
Passes(p) == p = "ok"

\* the record being published (the last one appended to _recent)
Rec == Len(published)

\* number of publishes whose list(_clients) snapshot has been taken
Broadcasts == IF ppc = "broadcast" THEN Len(published) - 1 ELSE Len(published)

\* the filter knobs of a Settings() object: enwiki_only is config.py:22,
\* the others are getattr defaults because Settings has no such field
DefaultSettings ==
    [enwiki_only |-> TRUE, require_comment |-> TRUE, min_byte_diff |-> 20]

\* no payload is being gated
GateIdle ==
    /\ settings = DefaultSettings
    /\ change = <<>>
    /\ gpos = 0
    /\ gstat = "idle"
    /\ evaluated = <<>>
    /\ event = <<>>

NotCleaned == [done |-> FALSE, title |-> "", comment |-> ""]

\* no text is being normalized
CleanIdle ==
    /\ src_text = ""
    /\ cleaned = NotCleaned

\* collect_window has not been called
WindowIdle ==
    /\ win_seconds = 0
    /\ clock = 0
    /\ wpc = "idle"
    /\ win_start = 0
    /\ win_out = <<>>
    /\ win_at = <<>>
    /\ windows = <<>>
    /\ gen_count = 0
    /\ gen_live = "live"

\* cluster_and_merge has not been called
ClusterIdle ==
    /\ scored = <<>>
    /\ sim_thresh = 0
    /\ clusters = <<>>
    /\ cidx = 1
    /\ merged = <<>>
    /\ returned = TRUE

ScoreIdle ==
    /\ batch = <<>>
    /\ eidx = 1
    /\ tbytes = <<>>
    /\ tcounts = <<>>
    /\ headline = ""
    /\ hscore = <<>>
    /\ fb_args = <<>>
    /\ fb_out = <<>>

BatchIdle ==
    /\ bsettings = <<>>
    /\ bpc = "collect"
    /\ llm_calls = 0
    /\ llm_first = "none"
    /\ llm_failed = FALSE
    /\ fb_calls = 0
    /\ bpath = "idle"
    /\ candidates = <<>>
    /\ topics = <<>>
    /\ emitted = <<>>
    /\ bdone = 0

SentimentIdle ==
    /\ compound = 0
    /\ label = "none"
    /\ wscores = <<>>
    /\ avg = <<>>
    /\ mood = "none"

RecordIdle ==
    /\ rpc = "next"
    /\ rev = <<>>
    /\ rec = <<>>
    /\ rcount = 0
    /\ rcrashed = FALSE
    /\ sent_failed = FALSE

FuseIdle ==
    /\ fcands = <<>>
    /\ fclusters = <<>>
    /\ fuse_thresh = 0
    /\ fused = <<>>
    /\ fidx = 1
    /\ fout = <<>>
    /\ freturned = FALSE

ChunkIdle ==
    /\ fb_pc = "idle"
    /\ fb_samples = <<>>
    /\ fb_tops = <<>>
    /\ fb_i = 0

MoreIdle == FuseIdle /\ ChunkIdle

ExtIdle == ScoreIdle /\ BatchIdle /\ SentimentIdle /\ RecordIdle /\ MoreIdle

LibIdle == GateIdle /\ CleanIdle /\ WindowIdle /\ ClusterIdle /\ ExtIdle

\* the service after import of api.py and before _startup's thread runs
ServiceInit ==
    /\ recent = <<>>
    /\ clients = {}
    /\ queue = [s \in Subs |-> <<>>]
    /\ stop_event = FALSE
    /\ ppc = "connect"
    /\ raw = NoPayload
    /\ backoff = BACKOFF_INIT
    /\ wait = 0
    /\ snap = {}
    /\ cur = NoSub
    /\ crashed = FALSE
    /\ spc = [s \in Subs |-> "none"]
    /\ disconnected = [s \in Subs |-> FALSE]
    /\ resp = <<0, <<>>>>
    /\ published = <<>>
    /\ received = [s \in Subs |-> <<>>]
    /\ dropped = [s \in Subs |-> {}]
    /\ since = [s \in Subs |-> 0]
    /\ until = [s \in Subs |-> 0]
    /\ failures = 0
    /\ resetFrom = 0
    /\ observed = FALSE

Init == ServiceInit /\ LibIdle

\* ------------------------------------------------ event_generator (thread P)
\* `except Exception` of the session: compute the wait and go to sleep
OnError ==
    /\ failures < MaxFailures
    /\ \E j \in JitterSet : wait' = Min(backoff, BACKOFF_CAP) * Centi + j
    /\ ppc' = "sleep"
    /\ raw' = NoPayload
    /\ failures' = failures + 1
    /\ UNCHANGED <<backoff, resetFrom>>

genFrame == <<hubVars, subVars, stop_event, crashed, resp, libVars, observed>>

\* `with EventSource(...) as stream`: the connection opens
ConnectOk ==
    /\ ppc = "connect"
    /\ ppc' = "read"
    /\ UNCHANGED <<genVars, genFrame>>

\* `with EventSource(...) as stream`: opening raises
ConnectFail ==
    /\ ppc = "connect"
    /\ OnError
    /\ UNCHANGED genFrame

\* `for event in stream`: the next payload arrives
FetchPayload ==
    /\ ppc = "read"
    /\ \E p \in Payloads : raw' = p
    /\ ppc' = "gate"
    /\ UNCHANGED <<backoff, wait, failures, resetFrom, genFrame>>

\* mutant of FetchEnd: the `else: backoff = 2` branch is missing
FetchEndNoReset ==
    /\ ppc = "read"
    /\ failures' = 0
    /\ resetFrom' = failures
    /\ ppc' = "connect"
    /\ UNCHANGED <<backoff, raw, wait, genFrame>>

\* mutant of FetchEnd: the generator returns when the stream ends
FetchEndReturn ==
    /\ ppc = "read"
    /\ backoff' = BACKOFF_INIT
    /\ failures' = 0
    /\ resetFrom' = failures
    /\ ppc' = "done"
    /\ UNCHANGED <<raw, wait, genFrame>>

\* the for loop ends without exception: `else: backoff = 2`
FetchEnd ==
    /\ ppc = "read"
    /\ backoff' = BACKOFF_INIT
    /\ failures' = 0
    /\ resetFrom' = failures
    /\ ppc' = "connect"
    /\ UNCHANGED <<raw, wait, genFrame>>

\* reading the stream raises
FetchFail ==
    /\ ppc = "read"
    /\ OnError
    /\ UNCHANGED genFrame

\* `for event in stream`: a payload arrives on which the loop body raises
FetchRaising ==
    /\ ppc = "read"
    /\ failures < MaxFailures
    /\ \E p \in RaisingPayloads : raw' = p
    /\ ppc' = "gate"
    /\ UNCHANGED <<backoff, wait, failures, resetFrom, genFrame>>

\* the loop body raises: json.loads with an error that is not a
\* JSONDecodeError, _size_delta, or int(timestamp); the error leaves the
\* for loop and the with block and reaches `except Exception`
GateError ==
    /\ ppc = "gate"
    /\ raw \in RaisingPayloads
    /\ OnError
    /\ UNCHANGED genFrame

\* message check, JSON parse, the seven gates: `continue` or `yield`
Gate ==
    /\ ppc = "gate"
    /\ raw \in Payloads
    /\ IF Passes(raw) /\ Len(published) < MaxPublish
          THEN ppc' = "yielded"
          ELSE ppc' = "read"
    /\ raw' = NoPayload
    /\ UNCHANGED <<backoff, wait, failures, resetFrom, genFrame>>

\* time.sleep(wait) returns: `backoff = min(backoff * 2, 30)`
Sleep ==
    /\ ppc = "sleep"
    /\ backoff' = Min(backoff * 2, BACKOFF_CAP)
    /\ wait' = 0
    /\ ppc' = "connect"
    /\ UNCHANGED <<raw, failures, resetFrom, genFrame>>

\* ------------------------------------------------- _producer_loop (thread P)
\* `if _stop_event.is_set(): break`
StopCheck ==
    /\ ppc = "yielded"
    /\ IF stop_event
          THEN ppc' = "done" /\ observed' = TRUE
          ELSE ppc' = "build" /\ UNCHANGED observed
    /\ UNCHANGED <<hubVars, genVars, subVars, stop_event, crashed, resp, libVars>>

\* mutant of BuildAppend: a supervisor restarts the loop after the exception
\* has been logged
BuildAppendRestart ==
    /\ ppc = "build"
    /\ \/ /\ recent' = DequeAppend(recent, Len(published) + 1)
          /\ published' = Append(published, Len(published) + 1)
          /\ ppc' = "broadcast"
          /\ UNCHANGED crashed
       \/ /\ crashed' = TRUE
          /\ ppc' = "read"
          /\ UNCHANGED <<recent, published>>
    /\ UNCHANGED <<clients, queue, snap, cur, received, dropped, since, until>>
    /\ UNCHANGED <<genVars, subVars, stop_event, resp, libVars, observed>>

\* `rec = _record_from_event(ev); _recent.append(rec)`, or the build raises
\* and `except Exception` ends the task
BuildAppend ==
    /\ ppc = "build"
    /\ \/ /\ recent' = DequeAppend(recent, Len(published) + 1)
          /\ published' = Append(published, Len(published) + 1)
          /\ ppc' = "broadcast"
          /\ UNCHANGED crashed
       \/ /\ crashed' = TRUE
          /\ ppc' = "done"
          /\ UNCHANGED <<recent, published>>
    /\ UNCHANGED <<clients, queue, snap, cur, received, dropped, since, until>>
    /\ UNCHANGED <<genVars, subVars, stop_event, resp, libVars, observed>>

\* mutant of Snapshot: the registry is walked while an add or discard on
\* another thread is half applied, so the walk can miss a registered queue
\* or meet one that is not registered
SnapshotTorn ==
    /\ ppc = "broadcast"
    /\ IF clients = {}
          THEN ppc' = "read" /\ UNCHANGED snap
          ELSE ppc' = "put" /\ snap' \in SUBSET Subs
    /\ UNCHANGED <<recent, clients, queue, cur, published, received, dropped,
                   since, until>>
    /\ UNCHANGED <<genVars, subVars, stop_event, crashed, resp, libVars, observed>>

\* _broadcast: `if not _clients: return`, else `list(_clients)`
Snapshot ==
    /\ ppc = "broadcast"
    /\ IF clients = {}
          THEN ppc' = "read" /\ UNCHANGED snap
          ELSE ppc' = "put" /\ snap' = clients
    /\ UNCHANGED <<recent, clients, queue, cur, published, received, dropped,
                   since, until>>
    /\ UNCHANGED <<genVars, subVars, stop_event, crashed, resp, libVars, observed>>

putFrame == <<recent, clients, published, received, since, until, genVars,
              subVars, stop_event, crashed, resp, libVars, observed>>

\* mutant of PutCheck: `await q.put(obj)` in place of put_nowait, which
\* waits for room in a full queue
PutCheckBlocking ==
    /\ ppc = "put"
    /\ cur = NoSub
    /\ \/ /\ snap = {}
          /\ ppc' = "read"
          /\ UNCHANGED <<snap, cur>>
       \/ \E q \in snap :
             /\ ~Full(q)
             /\ snap' = snap \ {q}
             /\ cur' = q
             /\ UNCHANGED ppc
    /\ UNCHANGED <<queue, dropped, putFrame>>

\* the for loop of _broadcast and the first half of put_nowait:
\* `if self.full(): raise QueueFull` (caught by `except asyncio.QueueFull`)
PutCheck ==
    /\ ppc = "put"
    /\ cur = NoSub
    /\ \/ /\ snap = {}
          /\ ppc' = "read"
          /\ UNCHANGED <<snap, cur, dropped>>
       \/ \E q \in snap :
             /\ snap' = snap \ {q}
             /\ IF Full(q)
                   THEN /\ dropped' = [dropped EXCEPT ![q] = @ \cup {Rec}]
                        /\ UNCHANGED cur
                   ELSE /\ cur' = q
                        /\ UNCHANGED dropped
             /\ UNCHANGED ppc
    /\ UNCHANGED <<queue, putFrame>>

\* put_nowait, second half: `self._put(item)`
PutAppend ==
    /\ ppc = "put"
    /\ cur # NoSub
    /\ queue' = [queue EXCEPT ![cur] = Append(@, Rec)]
    /\ cur' = NoSub
    /\ UNCHANGED <<snap, dropped, ppc, putFrame>>

\* ------------------------------------------------------ /stream (event loop)
subFrame == <<recent, published, genVars, stop_event, ppc, crashed, resp, libVars,
              observed>>

\* the handler: `q = asyncio.Queue(maxsize=256); _clients.add(q)`
Subscribe(s) ==
    /\ spc[s] = "none"
    /\ clients' = clients \cup {s}
    /\ spc' = [spc EXCEPT ![s] = "hello"]
    /\ since' = [since EXCEPT ![s] = Broadcasts]
    /\ UNCHANGED <<queue, snap, cur, received, dropped, until, disconnected,
                   subFrame>>

\* mutant of Discard: _broadcast walks _clients itself instead of
\* list(_clients), so a removal reaches the walk in progress
DiscardLive(s) ==
    /\ clients' = clients \ {s}
    /\ spc' = [spc EXCEPT ![s] = "closed"]
    /\ until' = [until EXCEPT ![s] = Broadcasts]
    /\ snap' = snap \ {s}
    /\ UNCHANGED <<queue, cur>>

\* `finally: _clients.discard(q)`
Discard(s) ==
    /\ clients' = clients \ {s}
    /\ spc' = [spc EXCEPT ![s] = "closed"]
    /\ until' = [until EXCEPT ![s] = Broadcasts]
    /\ UNCHANGED <<queue, snap, cur>>

\* event_gen starts: `yield b": connected\n\n"`
Hello(s) ==
    /\ spc[s] = "hello"
    /\ spc' = [spc EXCEPT ![s] = "check"]
    /\ UNCHANGED <<clients, queue, snap, cur, received, dropped, since, until,
                   disconnected, subFrame>>

\* `if await request.is_disconnected(): break`
CheckDisconnected(s) ==
    /\ spc[s] = "check"
    /\ IF disconnected[s]
          THEN Discard(s)
          ELSE /\ spc' = [spc EXCEPT ![s] = "get"]
               /\ UNCHANGED <<clients, until, queue, snap, cur>>
    /\ UNCHANGED <<received, dropped, since, disconnected, subFrame>>

\* mutant of Get: the newest queued record is taken first
GetLifo(s) ==
    /\ spc[s] = "get"
    /\ queue[s] # <<>>
    /\ queue' = [queue EXCEPT ![s] = SubSeq(@, 1, Len(@) - 1)]
    /\ received' = [received EXCEPT ![s] = Append(@, queue[s][Len(queue[s])])]
    /\ spc' = [spc EXCEPT ![s] = "check"]
    /\ UNCHANGED <<clients, snap, cur, dropped, since, until, disconnected,
                   subFrame>>

\* `obj = await q.get()` returns, which needs a queued record, and the frame
\* `data: {json}` is yielded
Get(s) ==
    /\ spc[s] = "get"
    /\ queue[s] # <<>>
    /\ queue' = [queue EXCEPT ![s] = Tail(@)]
    /\ received' = [received EXCEPT ![s] = Append(@, Head(queue[s]))]
    /\ spc' = [spc EXCEPT ![s] = "check"]
    /\ UNCHANGED <<clients, snap, cur, dropped, since, until, disconnected,
                   subFrame>>

\* the server cancels or closes the suspended generator:
\* `except asyncio.CancelledError: pass`, then `finally`
Cancel(s) ==
    /\ spc[s] \in {"check", "get"}
    /\ Discard(s)
    /\ UNCHANGED <<received, dropped, since, disconnected, subFrame>>

\* the remote peer goes away
Disconnect(s) ==
    /\ spc[s] \in {"hello", "check", "get"}
    /\ ~disconnected[s]
    /\ disconnected' = [disconnected EXCEPT ![s] = TRUE]
    /\ UNCHANGED <<hubVars, genVars, spc, stop_event, ppc, crashed, resp, libVars,
                   observed>>

\* the steps a client's event_gen takes by itself
SubscriberStep(s) == Hello(s) \/ CheckDisconnected(s) \/ Get(s)

\* ------------------------------------------------------------- other handlers
\* _shutdown: `_stop_event.set()`
Shutdown ==
    /\ ~stop_event
    /\ stop_event' = TRUE
    /\ UNCHANGED <<hubVars, genVars, subVars, ppc, crashed, resp, libVars, observed>>

\* Python's s[i:] for i >= 0
SliceFrom(s, i) == SubSeq(s, i + 1, Len(s))

\* mutant of RecentItems: `n = min(n, RECENT_MAX)` without the max(1, ...)
RecentItemsUnclamped(n) ==
    LET m == Min(n, RECENT_MAX)
    IN  IF m >= 1 THEN LastN(recent, m) ELSE SliceFrom(recent, -m)

\* `n = max(1, min(n, RECENT_MAX)); items = list(_recent)[-n:]`
RecentItems(n) == LastN(recent, Max(1, Min(n, RECENT_MAX)))

\* query values: below 1, inside the range, above the capacity
QueryNs == {-1, 0, 1, 2, RECENT_MAX, RECENT_MAX + 1}

\* GET /recent?n=
Recent(n) ==
    /\ resp' = <<n, RecentItems(n)>>
    /\ UNCHANGED <<libVars, hubVars, genVars, subVars, stop_event, ppc, crashed,
                   observed>>

Next ==
    \/ ConnectOk \/ ConnectFail \/ FetchPayload \/ FetchEnd \/ FetchFail
    \/ FetchRaising \/ GateError
    \/ Gate \/ Sleep
    \/ StopCheck \/ BuildAppend \/ Snapshot \/ PutCheck \/ PutAppend
    \/ \E s \in Subs : Subscribe(s)
    \/ \E s \in Subs : Hello(s)
    \/ \E s \in Subs : CheckDisconnected(s)
    \/ \E s \in Subs : Get(s)
    \/ \E s \in Subs : Cancel(s)
    \/ \E s \in Subs : Disconnect(s)
    \/ Shutdown
    \/ \E n \in QueryNs : Recent(n)

\* the whole service; the properties below are checked on three parts of it
\* (HubSpec, GenSpec, QuerySpec), each leaving out handlers that write none
\* of the variables its properties read
Spec == Init /\ [][Next]_vars

\* the hub under a source that stays connected: producer and SSE clients
NextHub ==
    \/ ConnectOk \/ FetchPayload \/ Gate
    \/ StopCheck \/ BuildAppend \/ Snapshot \/ PutCheck \/ PutAppend
    \/ \E s \in Subs : Subscribe(s)
    \/ \E s \in Subs : Hello(s)
    \/ \E s \in Subs : CheckDisconnected(s)
    \/ \E s \in Subs : Get(s)
    \/ \E s \in Subs : Cancel(s)
    \/ \E s \in Subs : Disconnect(s)

HubSpec == Init /\ [][NextHub]_vars

\* the producer's steps under NextHub
HubProducerStep ==
    \/ ConnectOk \/ FetchPayload \/ Gate
    \/ StopCheck \/ BuildAppend \/ Snapshot \/ PutCheck \/ PutAppend

\* the ingestion loop and the producer with no SSE client connected
NextGen ==
    \/ ConnectOk \/ ConnectFail \/ FetchPayload \/ FetchEnd \/ FetchFail
    \/ FetchRaising \/ GateError
    \/ Gate \/ Sleep
    \/ StopCheck \/ BuildAppend \/ Snapshot
    \/ Shutdown

GenSpec == Init /\ [][NextGen]_vars

\* the producer's steps under NextGen
GenProducerStep ==
    \/ ConnectOk \/ ConnectFail \/ FetchPayload \/ FetchEnd \/ FetchFail
    \/ FetchRaising \/ GateError
    \/ Gate \/ Sleep
    \/ StopCheck \/ BuildAppend \/ Snapshot

\* the worker thread keeps running and the source keeps delivering
FairGenSpec == GenSpec /\ WF_vars(GenProducerStep)

\* the producer and the /recent query
NextQuery ==
    \/ ConnectOk \/ FetchPayload \/ Gate
    \/ StopCheck \/ BuildAppend \/ Snapshot \/ PutCheck \/ PutAppend
    \/ \E s \in Subs : Subscribe(s)
    \/ \E s \in Subs : Hello(s)
    \/ \E s \in Subs : Cancel(s)
    \/ \E n \in QueryNs : Recent(n)

QuerySpec == Init /\ [][NextQuery]_vars

\* ------------------------------------------------------ strings (Python str)
\* the character at position i (1-based) of a string
Ch(s, i) == SubSeq(s, i, i)
\* s[i:] for a 1-based i
From(s, i) == SubSeq(s, i, Len(s))
\* \s of the regular expressions and of str.strip / str.split
IsSpace(c) == c = " "

RECURSIVE LStrip(_)
LStrip(s) == IF Len(s) > 0 /\ IsSpace(Ch(s, 1)) THEN LStrip(From(s, 2)) ELSE s
RECURSIVE RStrip(_)
RStrip(s) ==
    IF Len(s) > 0 /\ IsSpace(Ch(s, Len(s)))
        THEN RStrip(SubSeq(s, 1, Len(s) - 1))
        ELSE s
\* str.strip()
Strip(s) == RStrip(LStrip(s))

Abs(n) == IF n < 0 THEN -n ELSE n

\* ------------------------------------------------------------- cleaning.py
LowerLetters == "abcdefghijklmnopqrstuvwxyz"
UpperLetters == "ABCDEFGHIJKLMNOPQRSTUVWXYZ"
CharsOf(s) == {Ch(s, i) : i \in 1..Len(s)}
Letters == CharsOf(LowerLetters) \cup CharsOf(UpperLetters)
\* [A-Za-z]
IsLetter(c) == c \in Letters

\* the lower-case letter of each upper-case letter
LowerOf ==
    [c \in CharsOf(UpperLetters) |->
        Ch(LowerLetters,
           CHOOSE i \in 1..Len(UpperLetters) : Ch(UpperLetters, i) = c)]
\* str.lower() of one character and of a string
LowerCh(c) == IF c \in DOMAIN LowerOf THEN LowerOf[c] ELSE c
RECURSIVE Lower(_)
Lower(s) == IF Len(s) = 0 THEN "" ELSE LowerCh(Ch(s, 1)) \o Lower(From(s, 2))

\* s.startswith(p)
StartsWith(s, p) == Len(s) >= Len(p) /\ SubSeq(s, 1, Len(p)) = p
\* p in s
Contains(s, p) ==
    \E i \in 1..Len(s) : i + Len(p) - 1 <= Len(s)
                         /\ SubSeq(s, i, i + Len(p) - 1) = p

\* length of the longest prefix of s made of non-space characters (\S*)
RECURSIVE NonSpaceRun(_)
NonSpaceRun(s) ==
    IF Len(s) = 0 \/ IsSpace(Ch(s, 1)) THEN 0 ELSE 1 + NonSpaceRun(From(s, 2))

\* str.split(): the maximal runs of non-space characters
RECURSIVE Split(_)
Split(s) ==
    LET t == LStrip(s)
        n == NonSpaceRun(t)
    IN  IF Len(t) = 0 THEN <<>>
        ELSE <<SubSeq(t, 1, n)>> \o Split(From(t, n + 1))

\* " ".join(parts)
RECURSIVE Join(_)
Join(parts) ==
    IF Len(parts) = 0 THEN ""
    ELSE IF Len(parts) = 1 THEN parts[1]
    ELSE parts[1] \o " " \o Join(Tail(parts))

\* s.replace("/", " ")
RECURSIVE ReplaceSlash(_)
ReplaceSlash(s) ==
    IF Len(s) = 0 THEN ""
    ELSE (IF Ch(s, 1) = "/" THEN " " ELSE Ch(s, 1)) \o ReplaceSlash(From(s, 2))

\* cleaning.py:21-25
NS_PREFIXES ==
    {"special", "user", "user talk", "talk", "wikipedia", "file", "template",
     "help", "category", "portal", "book", "draft", "timedtext", "module",
     "mediawiki"}
\* cleaning.py:28
EXCLUDE_TOKENS == {"whatlinkshere", "special", "category", "categories", "wp"}
\* the alternatives of RE_LINKS, cleaning.py:31
LinkTokens == {"[[", "]]", "{{", "}}"}

\* RE_LINKS.sub(" ", s)
RECURSIVE SubLinks(_)
SubLinks(s) ==
    IF Len(s) = 0 THEN ""
    ELSE IF Len(s) >= 2 /\ SubSeq(s, 1, 2) \in LinkTokens
        THEN " " \o SubLinks(From(s, 3))
        ELSE Ch(s, 1) \o SubLinks(From(s, 2))

\* length of the match of RE_URL (http[s]?://\S+) at the start of s, or 0
UrlMatch(s) ==
    LET p == IF StartsWith(s, "https://") THEN 8
             ELSE IF StartsWith(s, "http://") THEN 7 ELSE 0
        r == IF p = 0 THEN 0 ELSE NonSpaceRun(From(s, p + 1))
    IN  IF r > 0 THEN p + r ELSE 0

\* RE_URL.sub(" ", s)
RECURSIVE SubUrl(_)
SubUrl(s) ==
    IF Len(s) = 0 THEN ""
    ELSE IF UrlMatch(s) > 0
        THEN " " \o SubUrl(From(s, UrlMatch(s) + 1))
        ELSE Ch(s, 1) \o SubUrl(From(s, 2))

\* RE_SPACES.sub(" ", s).strip()
collapse_spaces(s) == Join(Split(s))

\* length of the longest prefix of s outside [A-Za-z ]
RECURSIVE NonLetterRun(_)
NonLetterRun(s) ==
    IF Len(s) = 0 \/ IsLetter(Ch(s, 1)) \/ Ch(s, 1) = " " THEN 0
    ELSE 1 + NonLetterRun(From(s, 2))

\* RE_NONLET_ASCII.sub(" ", s)
RECURSIVE SubNonLetters(_)
SubNonLetters(s) ==
    IF Len(s) = 0 THEN ""
    ELSE IF NonLetterRun(s) > 0
        THEN " " \o SubNonLetters(From(s, NonLetterRun(s) + 1))
        ELSE Ch(s, 1) \o SubNonLetters(From(s, 2))

\* mutant of ascii_words_only: the non-letters are kept
ascii_words_only_keep(s) == collapse_spaces(s)

\* _ascii_words_only
ascii_words_only(s) == collapse_spaces(SubNonLetters(s))

\* _drop_excluded_tokens
drop_excluded_tokens(text) ==
    Join(SelectSeq(Split(text), LAMBDA w : Lower(w) \notin EXCLUDE_TOKENS))

\* position of the first ":" of s, 0 if there is none
FirstColon(s) ==
    IF Contains(s, ":")
        THEN CHOOSE i \in 1..Len(s) :
                 Ch(s, i) = ":" /\ \A j \in 1..(i - 1) : Ch(s, j) # ":"
        ELSE 0

\* normalize_title: RE_NS = ^([^:]+):(.*)$ matches when a ":" follows a
\* non-empty prefix
normalize_title(title) ==
    LET t == Strip(title)
        k == FirstColon(t)
        u == IF k > 1 /\ Lower(SubSeq(t, 1, k - 1)) \in NS_PREFIXES
                 THEN From(t, k + 1)
                 ELSE t
    IN  drop_excluded_tokens(ascii_words_only(ReplaceSlash(u)))

\* normalize_comment
normalize_comment(comment) ==
    drop_excluded_tokens(ascii_words_only(SubUrl(SubLinks(comment))))

\* strip_admin_markup
strip_admin_markup(text) == collapse_spaces(SubUrl(SubLinks(text)))

\* ------------------------------------- event_generator: one payload's gating
\* getattr defaults of stream.py:67 and :69; Settings has no such fields
allowed_namespaces == {0}
min_title_len == 4

\* the configurations explored: every value of the two switches, and the
\* default byte threshold next to a threshold of zero
SettingsSet ==
    [enwiki_only : BOOLEAN, require_comment : BOOLEAN,
     min_byte_diff : {0, 20}]

\* JSON values of the fields the loop reads: <<"null">> is None or a missing
\* key, <<"int", n>> a number, <<"str", s>> a string, <<"map", ...>> an
\* object; an integer member of an object is <<n>>, and <<>> when it is
\* missing or not an integer
Null == <<"null">>
NamespaceValues == {Null, <<"int", 0>>, <<"int", 1>>, <<"str", "x">>}
NsValues == {Null, <<"int", 0>>}
\* "length": {"old": .., "new": ..}
LengthValues ==
    {Null, <<"map", <<0>>, <<10>>>>, <<"map", <<40>>, <<0>>>>,
     <<"map", <<>>, <<40>>>>, <<"str", "x">>}
\* "revision": {"old": {"size": ..}, "new": {"size": ..}}; the feed's
\* current schema carries revision ids there: {"old": 7, "new": 8}
RevisionValues ==
    {Null,
     <<"map", <<"map", <<5>>>>, <<"map", <<30>>>>>>,
     <<"map", Null, <<"map", <<40>>>>>>,
     <<"map", <<"int", 7>>, <<"int", 8>>>>,
     <<"str", "x">>}
TimestampValues == {<<"int", 1>>, <<"str", "x">>}

\* the object payloads explored
Changes ==
    [wiki : {"enwiki", "dewiki"}, namespace : NamespaceValues, ns : NsValues,
     type : {"edit", "new"}, bot : BOOLEAN, title : {"Abc", "Abcd"},
     comment : {"", "  ", "fix"}, length : LengthValues,
     revision : RevisionValues, timestamp : TimestampValues]

IsMapping(v) == v[1] = "map"
\* `(v or {}).get(..)` does not raise: v is falsy or a mapping
HasGet(v) == v[1] \in {"null", "map"}

\* isinstance(old, int) and isinstance(new, int) for the length pair
LengthInts(c) ==
    IsMapping(c.length) /\ Len(c.length[2]) = 1 /\ Len(c.length[3]) = 1
\* rev.get("old") / rev.get("new") for i = 2 / 3
RevMember(c, i) == IF IsMapping(c.revision) THEN c.revision[i] ELSE Null
\* (m or {}).get("size")
SizeOf(m) == IF IsMapping(m) THEN m[2] ELSE <<>>
\* isinstance(osz, int) and isinstance(nsz, int)
RevisionInts(c) ==
    Len(SizeOf(RevMember(c, 2))) = 1 /\ Len(SizeOf(RevMember(c, 3))) = 1

\* _size_delta raises AttributeError: .get on a truthy non-mapping
size_delta_raises(c) ==
    \/ ~HasGet(c.length)
    \/ /\ ~LengthInts(c)
       /\ \/ ~HasGet(c.revision)
          \/ ~HasGet(RevMember(c, 2))
          \/ ~HasGet(RevMember(c, 3))

\* mutant of size_delta: the fallback to the revision sizes is missing
size_delta_length_only(c) ==
    IF LengthInts(c) THEN Abs(c.length[3][1] - c.length[2][1]) ELSE 0

\* _size_delta, where it returns
size_delta(c) ==
    IF LengthInts(c)
        THEN Abs(c.length[3][1] - c.length[2][1])
        ELSE IF RevisionInts(c)
                 THEN Abs(SizeOf(RevMember(c, 3))[1]
                          - SizeOf(RevMember(c, 2))[1])
                 ELSE 0

\* mutant of GateOrder: the bot test is made before the type test
GateOrderBotFirst ==
    <<"wiki", "namespace", "bot", "type", "title", "comment", "delta">>

\* the `continue` tests of stream.py:90-125 in program order
GateOrder ==
    <<"wiki", "namespace", "type", "bot", "title", "comment", "delta">>

\* `ns = raw.get("namespace"); if ns is None: ns = raw.get("ns")`
NamespaceOf(c) == IF c.namespace = Null THEN c.ns ELSE c.namespace

\* the test of gate g does not `continue`
GateOk(g, c, s) ==
    CASE g = "wiki" -> ~s.enwiki_only \/ c.wiki = "enwiki"
      [] g = "namespace" ->
            LET n == NamespaceOf(c)
            IN  n[1] = "int" /\ n[2] \in allowed_namespaces
      [] g = "type" -> c.type = "edit"
      [] g = "bot" -> ~c.bot
      [] g = "title" -> Len(c.title) >= min_title_len
      [] g = "comment" -> ~s.require_comment \/ Len(Strip(c.comment)) # 0
      [] g = "delta" -> size_delta(c) >= s.min_byte_diff

\* a payload that passed the first two checks (a message, a JSON object)
\* enters the gates under some configuration
GateInit ==
    /\ ServiceInit
    /\ CleanIdle
    /\ WindowIdle
    /\ ClusterIdle
    /\ ExtIdle
    /\ settings \in SettingsSet
    /\ change \in Changes
    /\ gpos = 1
    /\ gstat = "gating"
    /\ evaluated = <<>>
    /\ event = <<>>

gateFrame == <<serviceVars, cleanVars, windowVars, clusterVars, extVars>>

\* the next `if ...: continue` of stream.py:90-125; the last one calls
\* _size_delta first, which may raise
GateStep ==
    /\ gstat = "gating"
    /\ LET g == GateOrder[gpos]
       IN  /\ evaluated' = Append(evaluated, g)
           /\ IF g = "delta" /\ size_delta_raises(change)
                 THEN gstat' = "raised" /\ UNCHANGED gpos
              ELSE IF ~GateOk(g, change, settings)
                 THEN gstat' = "rejected" /\ UNCHANGED gpos
              ELSE IF gpos = Len(GateOrder)
                 THEN gstat' = "passed" /\ UNCHANGED gpos
              ELSE gstat' = "gating" /\ gpos' = gpos + 1
    /\ UNCHANGED <<settings, change, event, gateFrame>>

\* the dict of stream.py:128-136 is built and yielded; building it raises
\* when int() rejects the timestamp
Yield ==
    /\ gstat = "passed"
    /\ IF change.timestamp[1] = "int"
          THEN /\ gstat' = "yielded"
               /\ event' = Append(event,
                      [title |-> normalize_title(change.title),
                       comment |-> normalize_comment(change.comment),
                       ts |-> change.timestamp[2],
                       delta |-> size_delta(change)])
          ELSE /\ gstat' = "raised"
               /\ UNCHANGED event
    /\ UNCHANGED <<settings, change, gpos, evaluated, gateFrame>>

NextGate == GateStep \/ Yield

\* one pass of every explored payload through the gates
GateSpec == GateInit /\ [][NextGate]_vars

\* --------------------------------------------- normalize_title / _comment
\* pieces the explored texts are made of
Chunks ==
    {"[[", "]]", "{{", "}}", "http://", "https://", "a", "b ", " ", "[", "]",
     "{", "}", ":", "/", "Talk:", "WP", "1"}
\* the explored raw titles / comments: up to three pieces
Texts ==
    {""} \cup Chunks \cup {a \o b : a, b \in Chunks}
         \cup {a \o b \o c : a, b, c \in Chunks}

CleanInit ==
    /\ ServiceInit
    /\ GateIdle
    /\ WindowIdle
    /\ ClusterIdle
    /\ ExtIdle
    /\ src_text \in Texts
    /\ cleaned = NotCleaned

cleanFrame == <<serviceVars, gateVars, windowVars, clusterVars, extVars>>

\* stream.py:129-130: the raw text is normalized as a title and as a comment
Normalize ==
    /\ ~cleaned.done
    /\ cleaned' = [done |-> TRUE,
                   title |-> normalize_title(src_text),
                   comment |-> normalize_comment(src_text)]
    /\ UNCHANGED <<src_text, cleanFrame>>

NextClean == Normalize

CleanSpec == CleanInit /\ [][NextClean]_vars

\* ----------------------------------------------------------- collect_window
\* the window lengths `seconds` explored
WindowLengths == {0, 1, 2}

WindowInit ==
    /\ ServiceInit
    /\ GateIdle
    /\ CleanIdle
    /\ ClusterIdle
    /\ ExtIdle
    /\ win_seconds \in WindowLengths
    /\ clock = 0
    /\ wpc = "idle"
    /\ win_start = 0
    /\ win_out = <<>>
    /\ win_at = <<>>
    /\ windows = <<>>
    /\ gen_count = 0
    /\ gen_live = "live"

windowFrame == <<serviceVars, gateVars, cleanVars, clusterVars, extVars>>

\* time.time() advances, whatever the caller is doing
Tick ==
    /\ clock < MaxTime
    /\ clock' = clock + 1
    /\ UNCHANGED <<win_seconds, wpc, win_start, win_out, win_at, windows,
                   gen_count, gen_live, windowFrame>>

\* main.py:56 calls collect_window(gen, seconds): `out, start = [], time.time()`
Call ==
    /\ wpc \in {"idle", "returned"}
    /\ Len(windows) < MaxWindows
    /\ win_start' = clock
    /\ win_out' = <<>>
    /\ win_at' = <<>>
    /\ wpc' = "check"
    /\ UNCHANGED <<win_seconds, clock, windows, gen_count, gen_live,
                   windowFrame>>

\* mutant of Check: the window is still open when exactly `seconds` have
\* passed
CheckInclusive ==
    /\ wpc = "check"
    /\ IF clock - win_start <= win_seconds
          THEN wpc' = "fetch" /\ UNCHANGED windows
          ELSE wpc' = "returned" /\ windows' = Append(windows, win_out)
    /\ UNCHANGED <<win_seconds, clock, win_start, win_out, win_at, gen_count,
                   gen_live, windowFrame>>

\* `while time.time() - start < seconds:` else `return out`
Check ==
    /\ wpc = "check"
    /\ IF clock - win_start < win_seconds
          THEN wpc' = "fetch" /\ UNCHANGED windows
          ELSE wpc' = "returned" /\ windows' = Append(windows, win_out)
    /\ UNCHANGED <<win_seconds, clock, win_start, win_out, win_at, gen_count,
                   gen_live, windowFrame>>

\* next(gen) returns the generator's next item: `out.append(...)`
FetchItem ==
    /\ wpc = "fetch"
    /\ gen_live = "live"
    /\ gen_count < MaxItems
    /\ gen_count' = gen_count + 1
    /\ win_out' = Append(win_out, gen_count + 1)
    /\ win_at' = Append(win_at, clock)
    /\ wpc' = "check"
    /\ UNCHANGED <<win_seconds, clock, win_start, windows, gen_live,
                   windowFrame>>

\* next(gen) raises StopIteration (the generator returns, or had finished
\* before): `break`, `return out`
FetchStop ==
    /\ wpc = "fetch"
    /\ gen_live' = (IF gen_live = "live" THEN "ended" ELSE gen_live)
    /\ wpc' = "returned"
    /\ windows' = Append(windows, win_out)
    /\ UNCHANGED <<win_seconds, clock, win_start, win_out, win_at, gen_count,
                   windowFrame>>

\* next(gen) raises an exception that is not StopIteration: no handler in
\* collect_window, the exception reaches the caller and `out` is dropped
FetchRaise ==
    /\ wpc = "fetch"
    /\ gen_live = "live"
    /\ gen_live' = "raised"
    /\ wpc' = "propagated"
    /\ UNCHANGED <<win_seconds, clock, win_start, win_out, win_at, windows,
                   gen_count, windowFrame>>

NextWindow == Tick \/ Call \/ Check \/ FetchItem \/ FetchStop \/ FetchRaise

\* consecutive collect_window calls on one generator
WindowSpec == WindowInit /\ [][NextWindow]_vars

\* ------------------------------------------- scoring.py: cluster_and_merge
\* config.py:54-60
STOPWORDS ==
    {"wikipedia", "wikiproject", "project", "article", "articles", "editor",
     "editors", "edited", "update", "updates", "revised", "revision", "page",
     "pages", "talk", "section", "content", "reference", "references",
     "citation", "citations", "category", "categories", "template",
     "templates"}
\* config.py:63-67
ADMIN_TERMS ==
    {"talk", "draft", "notification", "redirects", "discussion", "rfd", "afd",
     "template", "category", "wikidata", "citation", "references", "log",
     "banner"}

\* words_for_similarity: the list `words` (letters only, length >= 4)
SimWords(h) ==
    SelectSeq(Split(SubNonLetters(strip_admin_markup(Lower(h)))),
              LAMBDA w : Len(w) >= 4)

\* words_for_similarity: unigrams and bigrams of `words` whose first word
\* is neither a stopword nor an admin term
words_for_similarity(h) ==
    LET words == SimWords(h)
        keep(i) == words[i] \notin STOPWORDS \cup ADMIN_TERMS
    IN  {words[i] : i \in {j \in 1..Len(words) : keep(j)}}
        \cup {words[i] \o "_" \o words[i + 1] :
                  i \in {j \in 1..(Len(words) - 1) : keep(j)}}

\* scoring.py:103-104: `sim = inter / union` as the fraction
\* <<inter, union>>, where `union` is `len(tok | c["tok"]) or 1`
cluster_sim(tok, ctok) ==
    <<Cardinality(tok \cap ctok), Max(1, Cardinality(tok \cup ctok))>>

\* scoring.py:84-89, as a fraction <<numerator, denominator>>
jaccard_tokens(a, b) ==
    LET A == words_for_similarity(a)
        B == words_for_similarity(b)
    IN  IF A = {} /\ B = {} THEN <<1, 1>>
        ELSE IF A = {} \/ B = {} THEN <<0, 1>>
        ELSE <<Cardinality(A \cap B), Cardinality(A \cup B)>>

\* the scan of the clusters, scoring.py:101-106, from cluster i on; `b` is
\* <<inter, union, index>> of the best cluster so far: best_sim as the
\* fraction inter / union, index 0 for best_idx = -1
RECURSIVE BestFrom(_, _, _, _)
BestFrom(tok, cs, i, b) ==
    IF i > Len(cs) THEN b
    ELSE LET sim == cluster_sim(tok, cs[i].tok)
         IN  IF sim[1] * b[2] > b[1] * sim[2]
                 THEN BestFrom(tok, cs, i + 1, <<sim[1], sim[2], i>>)
                 ELSE BestFrom(tok, cs, i + 1, b)

\* best_sim, best_idx after the scan
Best(tok, cs) == BestFrom(tok, cs, 1, <<0, 1, 0>>)

\* mutant of MergeInto: the total is raised only when the representative
\* changes
MergeIntoSumOnBest(c, h, s, tok) ==
    [tok |-> c.tok \cup tok,
     sum |-> IF s > c.best THEN c.sum + s ELSE c.sum,
     best |-> IF s > c.best THEN s ELSE c.best,
     repr |-> IF s > c.best THEN h ELSE c.repr,
     items |-> Append(c.items, <<h, s>>)]

\* mutant of MergeInto: the representative is replaced on `s >= c["best"]`
MergeIntoOnTie(c, h, s, tok) ==
    [tok |-> c.tok \cup tok,
     sum |-> c.sum + s,
     best |-> IF s >= c.best THEN s ELSE c.best,
     repr |-> IF s >= c.best THEN h ELSE c.repr,
     items |-> Append(c.items, <<h, s>>)]

\* scoring.py:107-112: the candidate joins cluster c
MergeInto(c, h, s, tok) ==
    [tok |-> c.tok \cup tok,
     sum |-> c.sum + s,
     best |-> IF s > c.best THEN s ELSE c.best,
     repr |-> IF s > c.best THEN h ELSE c.repr,
     items |-> Append(c.items, <<h, s>>)]

\* scoring.py:114: a new cluster
NewCluster(h, s, tok) ==
    [tok |-> tok, sum |-> s, best |-> s, repr |-> h, items |-> <<<<h, s>>>>]

\* scoring.py:100-114: the clusters after candidate (h, s) is processed
ClusterStep(cs, h, s, thresh) ==
    LET tok == words_for_similarity(h)
        b == Best(tok, cs)
    IN  IF b[1] * 100 >= thresh * b[2] /\ b[3] >= 1
            THEN [cs EXCEPT ![b[3]] = MergeInto(@, h, s, tok)]
            ELSE Append(cs, NewCluster(h, s, tok))

\* list.sort(key=lambda x: x[1], reverse=True): stable, descending totals
RECURSIVE InsertDesc(_, _)
InsertDesc(sorted, x) ==
    IF Len(sorted) = 0 THEN <<x>>
    ELSE IF x[2] > sorted[Len(sorted)][2]
        THEN Append(InsertDesc(SubSeq(sorted, 1, Len(sorted) - 1), x),
                    sorted[Len(sorted)])
        ELSE Append(sorted, x)
RECURSIVE SortDesc(_)
SortDesc(l) ==
    IF Len(l) = 0 THEN <<>>
    ELSE InsertDesc(SortDesc(SubSeq(l, 1, Len(l) - 1)), l[Len(l)])

\* the candidate texts, scores and thresholds (in hundredths) explored
Headlines ==
    {"", "Storm hits coastal city", "Coastal city hit by storm", "alpha",
     "alpha beta"}
Scores == {1, 2}
Thresholds == {0, 50, 69, 95, 100}
Candidates == Headlines \X Scores
CandidateLists == UNION {[1..n -> Candidates] : n \in 0..MaxCands}

ClusterInit ==
    /\ ServiceInit
    /\ GateIdle
    /\ CleanIdle
    /\ WindowIdle
    /\ ExtIdle
    /\ scored \in CandidateLists
    /\ sim_thresh \in Thresholds
    /\ clusters = <<>>
    /\ cidx = 1
    /\ merged = <<>>
    /\ returned = FALSE

clusterFrame == <<serviceVars, gateVars, cleanVars, windowVars, extVars>>

\* one iteration of `for h, s in scored`, scoring.py:95-114
ProcessCandidate ==
    /\ cidx <= Len(scored)
    /\ clusters' = ClusterStep(clusters, scored[cidx][1], scored[cidx][2],
                                sim_thresh)
    /\ cidx' = cidx + 1
    /\ UNCHANGED <<scored, sim_thresh, merged, returned, clusterFrame>>

\* scoring.py:116-118: build `merged`, sort it, return it
Return ==
    /\ cidx > Len(scored)
    /\ ~returned
    /\ merged' = SortDesc([k \in 1..Len(clusters) |->
                     <<clusters[k].repr, clusters[k].sum, clusters[k].items>>])
    /\ returned' = TRUE
    /\ UNCHANGED <<scored, sim_thresh, clusters, cidx, clusterFrame>>

NextCluster == ProcessCandidate \/ Return

\* one call of cluster_and_merge on every explored list and threshold
ClusterSpec == ClusterInit /\ [][NextCluster]_vars

\* -------------------------------------------------- scoring.py: term maps
Digits == CharsOf("0123456789")
\* \w of the regular expressions, on ASCII text
WordChars == Letters \cup Digits \cup {"_"}

\* length of the longest prefix of s made of word characters
RECURSIVE WordRun(_)
WordRun(s) ==
    IF Len(s) = 0 \/ Ch(s, 1) \notin WordChars THEN 0
    ELSE 1 + WordRun(From(s, 2))

\* every character of s is a letter
AllLetters(s) == \A i \in 1..Len(s) : IsLetter(Ch(s, i))

\* RE_WORDS3.findall(s), scoring.py:27: \b...\b makes a match a whole run of
\* word characters, and [a-zA-Z]{3,} makes it three letters or more
RECURSIVE RE_WORDS3(_)
RE_WORDS3(s) ==
    IF Len(s) = 0 THEN <<>>
    ELSE LET n == WordRun(s)
             w == SubSeq(s, 1, n)
         IN  IF n = 0 THEN RE_WORDS3(From(s, 2))
             ELSE IF n >= 3 /\ AllLetters(w)
                 THEN <<w>> \o RE_WORDS3(From(s, n + 1))
                 ELSE RE_WORDS3(From(s, n + 1))

\* _tokens, scoring.py:34-38: the words in order, repetitions kept
tokens(s) ==
    SelectSeq(RE_WORDS3(Lower(s)),
              LAMBDA w : w \notin STOPWORDS /\ w \notin ADMIN_TERMS)

\* strip_admin_markup(f'{e.get("title","")} {e.get("comment","")}')
EntryText(e) == strip_admin_markup(e.title \o " " \o e.comment)

\* Counter: cnt[w] += amt, and cnt.get(w, 0)
CounterAdd(cnt, w, amt) ==
    IF w \in DOMAIN cnt THEN [cnt EXCEPT ![w] = @ + amt]
    ELSE (w :> amt) @@ cnt
CounterGet(cnt, w) == IF w \in DOMAIN cnt THEN cnt[w] ELSE 0

\* scoring.py:56-58: `for w in toks` on one of the two counters
RECURSIVE AddAll(_, _, _)
AddAll(cnt, toks, amt) ==
    IF Len(toks) = 0 THEN cnt
    ELSE AddAll(CounterAdd(cnt, Head(toks), amt), Tail(toks), amt)

\* scoring.py:53: delta = max(0, int(e.get("delta", 0)))
EntryDelta(e) == Max(0, e.delta)

\* sum(counter.values())
RECURSIVE SumValues(_)
SumValues(cnt) ==
    IF DOMAIN cnt = {} THEN 0
    ELSE LET w == CHOOSE x \in DOMAIN cnt : TRUE
         IN  cnt[w] + SumValues([x \in DOMAIN cnt \ {w} |-> cnt[x]])

\* _unit_scale, scoring.py:61-65
unit_scale(term_bytes, term_counts) ==
    Max(1, SumValues(term_bytes) \div Max(1, SumValues(term_counts)))

\* sum(counter.get(w, 0) for w in toks)
RECURSIVE SumOver(_, _)
SumOver(cnt, toks) ==
    IF Len(toks) = 0 THEN 0
    ELSE CounterGet(cnt, Head(toks)) + SumOver(cnt, Tail(toks))

\* blend = 0.80 in hundredths
blend == 80

\* scoring.py:76-78: the exact value of
\* blend * b + (1.0 - blend) * c * _unit_scale(...), in hundredths
BlendCenti(h, term_bytes, term_counts) ==
    blend * SumOver(term_bytes, tokens(h))
    + (Centi - blend) * SumOver(term_counts, tokens(h))
      * unit_scale(term_bytes, term_counts)

\* int(...) of that value, scoring.py:78. The operands are doubles and
\* 1.0 - 0.80 is 0.19999999999999996, so a sum whose exact value is a whole
\* number q may come out just below q and truncate to q - 1; every other
\* value truncates to its floor.
score_headline_blend(h, term_bytes, term_counts) ==
    LET x == BlendCenti(h, term_bytes, term_counts)
        q == x \div Centi
    IN  IF x % Centi = 0 /\ SumOver(term_counts, tokens(h)) > 0
            THEN {q - 1, q}
            ELSE {q}

\* ---------------------------------- scoring.py: simple_fallback_headlines
UpperOf ==
    [c \in CharsOf(LowerLetters) |->
        Ch(UpperLetters,
           CHOOSE i \in 1..Len(LowerLetters) : Ch(LowerLetters, i) = c)]
UpperCh(c) == IF c \in DOMAIN UpperOf THEN UpperOf[c] ELSE c

\* str.title(): a letter is upper-cased after a non-letter and lower-cased
\* after a letter
RECURSIVE TitleFrom(_, _)
TitleFrom(s, inword) ==
    IF Len(s) = 0 THEN ""
    ELSE (IF inword THEN LowerCh(Ch(s, 1)) ELSE UpperCh(Ch(s, 1)))
         \o TitleFrom(From(s, 2), IsLetter(Ch(s, 1)))
Title(s) == TitleFrom(s, FALSE)

\* bag[w] += 1 on a Counter kept as the list of <<word, count>> in order of
\* first insertion
BagAdd(bag, w) ==
    IF \E i \in 1..Len(bag) : bag[i][1] = w
        THEN [i \in 1..Len(bag) |->
                 IF bag[i][1] = w THEN <<w, bag[i][2] + 1>> ELSE bag[i]]
        ELSE Append(bag, <<w, 1>>)
RECURSIVE BagAddAll(_, _)
BagAddAll(bag, ws) ==
    IF Len(ws) = 0 THEN bag ELSE BagAddAll(BagAdd(bag, Head(ws)), Tail(ws))

\* scoring.py:192: entries[:12]
FALLBACK_ENTRIES == 12
\* scoring.py:199: bag.most_common(60)
FALLBACK_TOPS == 60
\* scoring.py:207: s[:60]
SNIPPET_LEN == 60

\* l[:n]
Take(l, n) == SubSeq(l, 1, Min(n, Len(l)))

\* scoring.py:195-197: the words one event adds to the bag
BagWords(e) ==
    SelectSeq(RE_WORDS3(Lower(EntryText(e))),
              LAMBDA w : Len(w) >= 4 /\ w \notin STOPWORDS
                         /\ w \notin ADMIN_TERMS)

\* scoring.py:192-197: the bag after the events from index i on
RECURSIVE BagFrom(_, _, _)
BagFrom(entries, i, bag) ==
    IF i > Len(entries) THEN bag
    ELSE BagFrom(entries, i + 1, BagAddAll(bag, BagWords(entries[i])))

\* scoring.py:201-205: the while loop, i counted from 0
RECURSIVE ChunkLoop(_, _, _, _, _)
ChunkLoop(tops, i, out, n, max_words) ==
    IF Len(out) < n /\ i < Len(tops)
        THEN LET chunk == Strip(Join(SubSeq(tops, i + 1,
                                     Min(i + max_words, Len(tops)))))
             IN  ChunkLoop(tops, i + max_words,
                           IF chunk # "" THEN Append(out, chunk) ELSE out,
                           n, max_words)
        ELSE out

\* scoring.py:190-198: `tops`, the title-cased most common words of the
\* first entries
FallbackTops(entries) ==
    LET first == Take(entries, FALLBACK_ENTRIES)
        common == Take(SortDesc(BagFrom(first, 1, <<>>)), FALLBACK_TOPS)
    IN  [i \in 1..Len(common) |-> Title(common[i][1])]

\* scoring.py:191-194: `samples`, the cleaned text of the first entries
FallbackSamples(entries) ==
    LET first == Take(entries, FALLBACK_ENTRIES)
    IN  [i \in 1..Len(first) |-> EntryText(first[i])]

\* scoring.py:207: `[s[:60] for s in samples if s][:n]`
Snippets(samples, n) ==
    LET kept == SelectSeq(samples, LAMBDA x : x # "")
    IN  Take([i \in 1..Len(kept) |-> Take(kept[i], SNIPPET_LEN)], n)

FallbackSnippets(entries, n) == Snippets(FallbackSamples(entries), n)

\* simple_fallback_headlines, scoring.py:185-208
simple_fallback_headlines(entries, n, max_words) ==
    LET out == ChunkLoop(FallbackTops(entries), 0, <<>>, n, max_words)
    IN  IF Len(out) = 0 THEN FallbackSnippets(entries, n) ELSE out

\* the windows, headlines and arguments explored
MaxEntries == 2
Titles == {"", "Storm", "Talk"}
Comments == {"", "storm storm surge", "fix [[Storm]] 12"}
Deltas == {0 - 4, 0, 7}
Entries == [title : Titles, comment : Comments, delta : Deltas]
Batches == UNION {[1..n -> Entries] : n \in 0..MaxEntries}
ScoreHeadlines == {"", "Storm", "Storm surge storm", "Talk fix"}
FallbackNs == {1, 2}
FallbackMaxWords == {1, 8}

ScoreInit ==
    /\ ServiceInit
    /\ GateIdle
    /\ CleanIdle
    /\ WindowIdle
    /\ ClusterIdle
    /\ BatchIdle
    /\ SentimentIdle
    /\ RecordIdle
    /\ MoreIdle
    /\ batch \in Batches
    /\ eidx = 1
    /\ tbytes = <<>>
    /\ tcounts = <<>>
    /\ headline = ""
    /\ hscore = <<>>
    /\ fb_args = <<>>
    /\ fb_out = <<>>

scoreFrame == <<serviceVars, gateVars, cleanVars, windowVars, clusterVars,
                batchVars, sentimentVars, recordVars, moreVars>>

\* one iteration of `for e in entries`, scoring.py:52-58
TermMapsEntry ==
    /\ fb_args = <<>>
    /\ eidx <= Len(batch)
    /\ LET delta == EntryDelta(batch[eidx])
           toks == tokens(EntryText(batch[eidx]))
       IN  /\ tcounts' = AddAll(tcounts, toks, 1)
           /\ tbytes' = AddAll(tbytes, toks, delta)
    /\ eidx' = eidx + 1
    /\ UNCHANGED <<batch, headline, hscore, fb_args, fb_out, scoreFrame>>

\* score_headline_blend on the finished maps, scoring.py:68-78
ScoreHeadline ==
    /\ eidx > Len(batch)
    /\ hscore = <<>>
    /\ \E h \in ScoreHeadlines :
           /\ headline' = h
           /\ \E v \in score_headline_blend(h, tbytes, tcounts) :
                  hscore' = <<v>>
    /\ UNCHANGED <<batch, eidx, tbytes, tcounts, fb_args, fb_out, scoreFrame>>

\* simple_fallback_headlines on the window, scoring.py:185-208
Fallback ==
    /\ fb_args = <<>>
    /\ eidx = 1
    /\ Len(batch) >= 1
    /\ \E n \in FallbackNs, mw \in FallbackMaxWords :
           /\ fb_args' = <<n, mw>>
           /\ fb_out' = simple_fallback_headlines(batch, n, mw)
    /\ UNCHANGED <<batch, eidx, tbytes, tcounts, headline, hscore, scoreFrame>>

NextScore == TermMapsEntry \/ ScoreHeadline \/ Fallback
ScoreSpec == ScoreInit /\ [][NextScore]_vars

\* ----------------------- simple_fallback_headlines, its loop step by step
\* the windows and arguments explored: texts with two and three eligible
\* words, a text with none, n from 0 and max_words from 0
ChunkComments == {"", "storm storm surge", "flood warning issued", "fix the map"}
ChunkEntries == [title : {"", "Storm"}, comment : ChunkComments, delta : {0}]
ChunkBatches == UNION {[1..k -> ChunkEntries] : k \in 0..MaxEntries}
ChunkNs == {0, 1, 2}
ChunkMaxWords == {0, 1, 2, 8}

ChunkInit ==
    /\ ServiceInit
    /\ GateIdle
    /\ CleanIdle
    /\ WindowIdle
    /\ ClusterIdle
    /\ BatchIdle
    /\ SentimentIdle
    /\ RecordIdle
    /\ FuseIdle
    /\ ChunkIdle
    /\ batch \in ChunkBatches
    /\ eidx = 1
    /\ tbytes = <<>>
    /\ tcounts = <<>>
    /\ headline = ""
    /\ hscore = <<>>
    /\ fb_args = <<>>
    /\ fb_out = <<>>

chunkFrame == <<serviceVars, gateVars, cleanVars, windowVars, clusterVars,
                batchVars, sentimentVars, recordVars, fuseVars, batch, eidx,
                tbytes, tcounts, headline, hscore>>

\* scoring.py:185-200: the call, up to `i = 0`
FallbackCall ==
    /\ fb_pc = "idle"
    /\ \E n \in ChunkNs, mw \in ChunkMaxWords : fb_args' = <<n, mw>>
    /\ fb_samples' = FallbackSamples(batch)
    /\ fb_tops' = FallbackTops(batch)
    /\ fb_out' = <<>>
    /\ fb_i' = 0
    /\ fb_pc' = "loop"
    /\ UNCHANGED chunkFrame

\* scoring.py:201-205: one iteration of the while loop
ChunkIter ==
    /\ fb_pc = "loop"
    /\ Len(fb_out) < fb_args[1] /\ fb_i < Len(fb_tops)
    /\ LET chunk == Strip(Join(SubSeq(fb_tops, fb_i + 1,
                                Min(fb_i + fb_args[2], Len(fb_tops)))))
       IN  fb_out' = IF chunk # "" THEN Append(fb_out, chunk) ELSE fb_out
    /\ fb_i' = fb_i + fb_args[2]
    /\ UNCHANGED <<fb_pc, fb_args, fb_samples, fb_tops, chunkFrame>>

\* scoring.py:201 and 206-208: the loop condition is false; the snippets
\* replace an empty `out`; return
FallbackReturn ==
    /\ fb_pc = "loop"
    /\ ~(Len(fb_out) < fb_args[1] /\ fb_i < Len(fb_tops))
    /\ fb_out' = IF Len(fb_out) = 0
                    THEN Snippets(fb_samples, fb_args[1])
                    ELSE fb_out
    /\ fb_pc' = "done"
    /\ UNCHANGED <<fb_args, fb_samples, fb_tops, fb_i, chunkFrame>>

NextChunk == FallbackCall \/ ChunkIter \/ FallbackReturn

ChunkSpec == ChunkInit /\ [][NextChunk]_vars

\* the interpreter keeps executing a call that has been made
FairChunkSpec == ChunkSpec /\ WF_vars(ChunkIter \/ FallbackReturn)

\* ------------------------------------ scoring.py: fuse_phrasal_near_dupes
\* characters RE_ASCII_APOS keeps: [A-Za-z0-9' ]
FuzzyChars == Letters \cup Digits \cup {"'", " "}

\* length of the longest prefix of s outside [A-Za-z0-9' ]
RECURSIVE NonFuzzyRun(_)
NonFuzzyRun(s) ==
    IF Len(s) = 0 \/ Ch(s, 1) \in FuzzyChars THEN 0
    ELSE 1 + NonFuzzyRun(From(s, 2))

\* RE_ASCII_APOS.sub(" ", s), scoring.py:28
RECURSIVE SubNonFuzzy(_)
SubNonFuzzy(s) ==
    IF Len(s) = 0 THEN ""
    ELSE IF NonFuzzyRun(s) > 0
        THEN " " \o SubNonFuzzy(From(s, NonFuzzyRun(s) + 1))
        ELSE Ch(s, 1) \o SubNonFuzzy(From(s, 2))

\* _norm_for_fuzzy, scoring.py:121-129, on ASCII text (where NFKD and the
\* removal of combining marks change nothing)
norm_for_fuzzy(s) == Lower(collapse_spaces(SubNonFuzzy(s)))

\* length of the longest common prefix of a[i:] and b[j:] (1-based)
RECURSIVE CommonLen(_, _, _, _)
CommonLen(a, i, b, j) ==
    IF i > Len(a) \/ j > Len(b) \/ Ch(a, i) # Ch(b, j) THEN 0
    ELSE 1 + CommonLen(a, i + 1, b, j + 1)

\* maximum of a non-empty set of numbers
SetMax(S) == CHOOSE x \in S : \A y \in S : y <= x
SetMin(S) == CHOOSE x \in S : \A y \in S : x <= y

\* difflib.SequenceMatcher.find_longest_match on whole strings without junk:
\* <<i, j, k>> with a[i:i+k] = b[j:j+k], k largest, then i smallest, then j
\* smallest; k = 0 when no character is shared
LongestMatch(a, b) ==
    LET k == SetMax({0} \cup {CommonLen(a, i, b, j) :
                                 i \in 1..Len(a), j \in 1..Len(b)})
    IN  IF k = 0 THEN <<0, 0, 0>>
        ELSE LET i == SetMin({x \in 1..Len(a) :
                         \E y \in 1..Len(b) : CommonLen(a, x, b, y) = k})
                 j == SetMin({y \in 1..Len(b) : CommonLen(a, i, b, y) = k})
             IN  <<i, j, k>>

\* SequenceMatcher.get_matching_blocks: total size of the matching blocks,
\* the longest match first and then the parts on its left and on its right
RECURSIVE Matches(_, _)
Matches(a, b) ==
    IF Len(a) = 0 \/ Len(b) = 0 THEN 0
    ELSE LET m == LongestMatch(a, b)
         IN  IF m[3] = 0 THEN 0
             ELSE m[3]
                  + Matches(SubSeq(a, 1, m[1] - 1), SubSeq(b, 1, m[2] - 1))
                  + Matches(From(a, m[1] + m[3]), From(b, m[2] + m[3]))

\* SequenceMatcher(None, a, b).ratio() as the fraction <<2 * M, T>>; 1.0 for
\* two empty strings
Ratio(a, b) ==
    IF Len(a) + Len(b) = 0 THEN <<1, 1>>
    ELSE <<2 * Matches(a, b), Len(a) + Len(b)>>

\* mutant of FirstClose: the group with the highest ratio is taken, not the
\* first one that reaches the threshold
FirstCloseBest(key, fs, i, threshold) ==
    LET close == {k \in i..Len(fs) :
                     Ratio(key, fs[k].key)[1] * Centi >=
                         threshold * Ratio(key, fs[k].key)[2]}
        better(j, k) == Ratio(key, fs[j].key)[1] * Ratio(key, fs[k].key)[2] >
                            Ratio(key, fs[k].key)[1] * Ratio(key, fs[j].key)[2]
    IN  IF close = {} THEN 0
        ELSE CHOOSE k \in close :
                 /\ \A j \in close : ~better(j, k)
                 /\ \A j \in close : j < k => better(k, j)

\* scoring.py:144-151: index of the first fused group whose key is close
\* enough to `key`, from group i on; 0 when there is none
RECURSIVE FirstClose(_, _, _, _)
FirstClose(key, fs, i, threshold) ==
    IF i > Len(fs) THEN 0
    ELSE LET r == Ratio(key, fs[i].key)
         IN  IF r[1] * Centi >= threshold * r[2] THEN i
             ELSE FirstClose(key, fs, i + 1, threshold)

\* mutant of FuseStep: a merge keeps the group's members and forgets those
\* of the incoming cluster
FuseStepKeepMembers(fs, c, threshold) ==
    LET rep == c[1]
        score == c[2]
        members == c[3]
        key == norm_for_fuzzy(rep)
        at == FirstClose(key, fs, 1, threshold)
    IN  IF at > 0
            THEN [fs EXCEPT ![at] =
                     [key |-> @.key,
                      rep |-> IF score > @.best THEN rep ELSE @.rep,
                      score |-> @.score + score,
                      best |-> IF score > @.best THEN score ELSE @.best,
                      members |-> @.members]]
            ELSE Append(fs, [key |-> key, rep |-> rep, score |-> score,
                             best |-> score, members |-> members])

\* scoring.py:141-153: one iteration of `for rep, score, members in
\* clusters` on the groups fs
FuseStep(fs, c, threshold) ==
    LET rep == c[1]
        score == c[2]
        members == c[3]
        key == norm_for_fuzzy(rep)
        at == FirstClose(key, fs, 1, threshold)
    IN  IF at > 0
            THEN [fs EXCEPT ![at] =
                     [key |-> @.key,
                      rep |-> IF score > @.best THEN rep ELSE @.rep,
                      score |-> @.score + score,
                      best |-> IF score > @.best THEN score ELSE @.best,
                      members |-> @.members \o members]]
            ELSE Append(fs, [key |-> key, rep |-> rep, score |-> score,
                             best |-> score, members |-> members])

\* scoring.py:141-153: the for loop over the clusters from index i on
RECURSIVE FuseFrom(_, _, _, _)
FuseFrom(cs, i, fs, threshold) ==
    IF i > Len(cs) THEN fs
    ELSE FuseFrom(cs, i + 1, FuseStep(fs, cs[i], threshold), threshold)

\* the returned tuples (rep, score, members), scoring.py:155
FusedTuples(fs) ==
    [k \in 1..Len(fs) |-> <<fs[k].rep, fs[k].score, fs[k].members>>]

\* mutant of fuse_phrasal_near_dupes: the groups are returned in order of
\* creation
fuse_unsorted(cs, threshold) == FusedTuples(FuseFrom(cs, 1, <<>>, threshold))

\* fuse_phrasal_near_dupes, scoring.py:132-155
fuse_phrasal_near_dupes(cs, threshold) ==
    SortDesc(FusedTuples(FuseFrom(cs, 1, <<>>, threshold)))

\* cluster_and_merge as a function: the loop of ProcessCandidate from
\* candidate i on, then Return's sort
RECURSIVE ClusterFrom(_, _, _, _)
ClusterFrom(sc, i, cs, thresh) ==
    IF i > Len(sc) THEN cs
    ELSE ClusterFrom(sc, i + 1, ClusterStep(cs, sc[i][1], sc[i][2], thresh),
                     thresh)
cluster_and_merge(sc, thresh) ==
    LET cs == ClusterFrom(sc, 1, <<>>, thresh)
    IN  SortDesc([k \in 1..Len(cs) |-> <<cs[k].repr, cs[k].sum, cs[k].items>>])

\* ------------------------------ cluster_and_merge, then fuse, step by step
\* config.py:29: Settings.jaccard_threshold, in hundredths
jaccard_threshold == 69
\* length of the candidate lists explored
MaxFuse == 3
\* the candidate texts explored: Ratio("flood alerted", "flood alerts") is
\* 22/25, Ratio("flood alert", "flood alerted") is 22/24 and
\* Ratio("flood alert", "flood alerts") is 22/23
FuseReps == {"", "Flood alerted", "Flood alerts", "Flood alert"}
\* the thresholds explored, in hundredths: the default of the function
\* (scoring.py:134), Settings.phrasal_fuse_threshold (config.py:30), 1.0
FuseThresholds == {88, 90, 100}
FuseCandidates == UNION {[1..n -> FuseReps \X Scores] : n \in 0..MaxFuse}

\* the list l, last element first
Reverse(l) == [k \in 1..Len(l) |-> l[Len(l) + 1 - k]]

\* main.py:97-98: `clusters = cluster_and_merge(scored, ...)` is the
\* argument of fuse_phrasal_near_dupes; the function takes any list of
\* clusters, so the same clusters in ascending order of total are explored
\* as well
FuseInit ==
    /\ ServiceInit
    /\ GateIdle
    /\ CleanIdle
    /\ WindowIdle
    /\ ClusterIdle
    /\ ScoreIdle
    /\ BatchIdle
    /\ SentimentIdle
    /\ RecordIdle
    /\ ChunkIdle
    /\ fcands \in FuseCandidates
    /\ fclusters \in {cluster_and_merge(fcands, jaccard_threshold),
                      Reverse(cluster_and_merge(fcands, jaccard_threshold))}
    /\ fuse_thresh \in FuseThresholds
    /\ fused = <<>>
    /\ fidx = 1
    /\ fout = <<>>
    /\ freturned = FALSE

fuseFrame == <<serviceVars, gateVars, cleanVars, windowVars, clusterVars,
               scoreVars, batchVars, sentimentVars, recordVars, chunkVars>>

\* one iteration of `for rep, score, members in clusters`, scoring.py:141-153
FuseCluster ==
    /\ fidx <= Len(fclusters)
    /\ fused' = FuseStep(fused, fclusters[fidx], fuse_thresh)
    /\ fidx' = fidx + 1
    /\ UNCHANGED <<fcands, fclusters, fuse_thresh, fout, freturned, fuseFrame>>

\* scoring.py:154-155: sort the groups by total, descending, and return
FuseReturn ==
    /\ fidx > Len(fclusters)
    /\ ~freturned
    /\ fout' = SortDesc(FusedTuples(fused))
    /\ freturned' = TRUE
    /\ UNCHANGED <<fcands, fclusters, fuse_thresh, fused, fidx, fuseFrame>>

NextFuse == FuseCluster \/ FuseReturn

FuseSpec == FuseInit /\ [][NextFuse]_vars


\* ------------------------------------------------------------------ llm.py
\* llm.py:24-29
OFF_LIMIT ==
    {"masturbate", "masturbation", "porn", "pornography", "xxx", "sex",
     "sexual", "fetish", "nsfw"}
\* llm.py:32-35
BAN_WORDS ==
    {"whatlinkshere", "special", "wikiproject", "talk", "articles", "class",
     "stub", "category", "categories", "wp"}

\* length of the match of \[\[|\]\]|\{|\}|\(|\)|<|>|https?://\S+ at the
\* start of s, or 0 (llm.py:58)
BadPunctMatch(s) ==
    IF StartsWith(s, "[[") \/ StartsWith(s, "]]") THEN 2
    ELSE IF Len(s) > 0 /\ Ch(s, 1) \in {"{", "}", "(", ")", "<", ">"} THEN 1
    ELSE UrlMatch(s)

\* re.sub(..., " ", s) of llm.py:58 followed by the replacement of the
\* double quotes of llm.py:59 (of which ASCII text has only '"')
RECURSIVE SubBadPunct(_)
SubBadPunct(s) ==
    IF Len(s) = 0 THEN ""
    ELSE IF BadPunctMatch(s) > 0
        THEN " " \o SubBadPunct(From(s, BadPunctMatch(s) + 1))
    ELSE IF Ch(s, 1) = "\"" THEN " " \o SubBadPunct(From(s, 2))
    ELSE Ch(s, 1) \o SubBadPunct(From(s, 2))

\* _strip_bad_punct_keep_apostrophe, llm.py:56-60
strip_bad_punct_keep_apostrophe(s) == collapse_spaces(SubBadPunct(s))

\* \b at position p of s (between characters p - 1 and p, 1-based)
IsBoundary(s, p) ==
    (p > 1 /\ Ch(s, p - 1) \in WordChars)
        # (p <= Len(s) /\ Ch(s, p) \in WordChars)

\* length of the longest prefix of s made of [a-z']
RECURSIVE OffRun(_)
OffRun(s) ==
    IF Len(s) = 0 \/ Ch(s, 1) \notin CharsOf(LowerLetters) \cup {"'"} THEN 0
    ELSE 1 + OffRun(From(s, 2))

\* length of the match of \b[a-z']+\b at position p of s, or 0
OffMatch(s, p) ==
    LET ends == {k \in 1..OffRun(From(s, p)) : IsBoundary(s, p + k)}
    IN  IF IsBoundary(s, p) /\ ends # {} THEN SetMax(ends) ELSE 0

\* re.findall(r"\b[a-z']+\b", s) from position p on, as a set
RECURSIVE OffTokens(_, _)
OffTokens(s, p) ==
    IF p > Len(s) THEN {}
    ELSE IF OffMatch(s, p) > 0
        THEN {SubSeq(s, p, p + OffMatch(s, p) - 1)}
             \cup OffTokens(s, p + OffMatch(s, p))
        ELSE OffTokens(s, p + 1)

\* _contains_off_limit, llm.py:62-64
contains_off_limit(s) == OffTokens(Lower(s), 1) \cap OFF_LIMIT # {}

\* sanitize_headline, llm.py:66-68
sanitize_headline(h) == IF contains_off_limit(h) THEN "" ELSE h

\* json.loads on the explored texts that are JSON objects: the str() of
\* their scalar values, in order
JsonObjects == ("{\"title\": \"Storm alert\", \"n\": 3}" :> <<"Storm alert", "3">>)

\* llm.py:77-83: a text that is a JSON object becomes its joined values;
\* any other text is kept (json.loads raises and the error is swallowed)
TolerateObject(h) ==
    IF StartsWith(LStrip(h), "{") /\ h \in DOMAIN JsonObjects
        THEN Join(JsonObjects[h])
        ELSE h

\* s.strip(" -:")
RECURSIVE StripDashes(_)
StripDashes(s) ==
    IF Len(s) > 0 /\ Ch(s, 1) \in {" ", "-", ":"} THEN StripDashes(From(s, 2))
    ELSE IF Len(s) > 0 /\ Ch(s, Len(s)) \in {" ", "-", ":"}
        THEN StripDashes(SubSeq(s, 1, Len(s) - 1))
    ELSE s

\* clean_headline, llm.py:70-96
clean_headline(h, max_words) ==
    LET t == strip_bad_punct_keep_apostrophe(TolerateObject(h))
        words == Take(SelectSeq(Split(t), LAMBDA w : Lower(w) \notin BAN_WORDS),
                      max_words)
        j == Join(words)
    IN  IF Len(words) < 2 THEN ""
        ELSE StripDashes(UpperCh(Ch(j, 1)) \o From(j, 2))

\* str(n) of a natural number
RECURSIVE IntStr(_)
IntStr(n) ==
    IF n < 10 THEN Ch("0123456789", n + 1)
    ELSE IntStr(n \div 10) \o Ch("0123456789", (n % 10) + 1)

\* [str(x) for x in data if isinstance(x, (str, int, float))] on a list of
\* JSON values <<"str", s>>, <<"int", n>>, <<"null">>
RECURSIVE ScalarStrings(_)
ScalarStrings(values) ==
    IF Len(values) = 0 THEN <<>>
    ELSE (IF Head(values)[1] = "str" THEN <<Head(values)[2]>>
          ELSE IF Head(values)[1] = "int" THEN <<IntStr(Head(values)[2])>>
          ELSE <<>>)
         \o ScalarStrings(Tail(values))

\* _parse_json_array, llm.py:102-120, on a response text given by what
\* json.loads and the search for \[.*\] make of it:
\*   <<"array", values>>    a JSON array
\*   <<"object", values>>   a JSON object (its values)
\*   <<"wrapped", values>>  not JSON, but its [...] part is a JSON array
\*   <<"broken">>           not JSON, and its [...] part is not JSON either
\*   <<"text">>             neither JSON nor a text with a [...] part
parse_json_array(content) ==
    IF content[1] \in {"array", "object", "wrapped"}
        THEN ScalarStrings(content[2])
        ELSE <<>>

\* llm.py:183-195: the loop over items from index i on
RECURSIVE CleanFrom(_, _, _, _, _, _)
CleanFrom(items, i, acc, seen, n, max_words) ==
    IF i > Len(items) THEN acc
    ELSE LET h == sanitize_headline(clean_headline(items[i], max_words))
         IN  IF h = "" \/ Lower(h) \in seen
                 THEN CleanFrom(items, i + 1, acc, seen, n, max_words)
             ELSE IF Len(acc) + 1 >= n THEN Append(acc, h)
             ELSE CleanFrom(items, i + 1, Append(acc, h),
                            seen \cup {Lower(h)}, n, max_words)

\* llm.py:182-200: what generate_batch_headlines returns for the parsed
\* items
Postprocess(items, entries, n, max_words) ==
    LET acc == CleanFrom(items, 1, <<>>, {}, n, max_words)
    IN  IF Len(acc) = 0 THEN simple_fallback_headlines(entries, n, max_words)
        ELSE acc

\* -------------------------------------------------- main.py: run, one window
\* term_maps as a function: <<tbytes, tcounts>> after the events from i on
RECURSIVE TermMapsFrom(_, _, _)
TermMapsFrom(entries, i, tm) ==
    IF i > Len(entries) THEN tm
    ELSE LET toks == tokens(EntryText(entries[i]))
         IN  TermMapsFrom(entries, i + 1,
                 <<AddAll(tm[1], toks, EntryDelta(entries[i])),
                   AddAll(tm[2], toks, 1)>>)
term_maps(entries) == TermMapsFrom(entries, 1, <<<<>>, <<>>>>)

\* [(h, score_headline_blend(h, tbytes, tcounts)) for h in hs]: the lists
\* the scoring can produce
RECURSIVE ScoredLists(_, _)
ScoredLists(hs, tm) ==
    IF Len(hs) = 0 THEN {<<>>}
    ELSE {<<<<Head(hs), v>>>> \o rest :
              v \in score_headline_blend(Head(hs), tm[1], tm[2]),
              rest \in ScoredLists(Tail(hs), tm)}

\* the windows, settings and collaborator replies explored
MaxBatches == 2
WindowEntries ==
    {[title |-> "Storm", comment |-> "storm storm surge", delta |-> 7],
     [title |-> "", comment |-> "", delta |-> 0],
     [title |-> "Talk", comment |-> "fix [[Storm]] 12", delta |-> 0]}
PipelineWindows == UNION {[1..n -> WindowEntries] : n \in 0..MaxEntries}
BatchSettings ==
    [top_headlines : {1, 2}, min_edits_for_llm : {1, 2}, max_words : {8},
     jaccard_threshold : {69}, phrasal_fuse_threshold : {90}]
\* what makes _call_ollama raise: requests.post times out or cannot
\* connect, raise_for_status rejects the status, the body is not the
\* expected JSON object
LlmErrors == {"timeout", "connection", "status", "body"}
\* the `response` texts, by what _parse_json_array makes of them
Responses ==
    {<<"text">>,
     <<"broken">>,
     <<"array", <<>>>>,
     <<"array", <<<<"str", "Storm surge warning">>,
                  <<"str", "Storm hits coastal city">>,
                  <<"str", "Storm hits coastal cities">>,
                  <<"str", "Flood warning issued">>>>>>,
     <<"array", <<<<"str", "storm">>, <<"str", "Sex scandal">>, <<"null">>>>>>,
     <<"object", <<<<"str", "{\"title\": \"Storm alert\", \"n\": 3}">>,
                   <<"int", 3>>>>>>,
     <<"wrapped", <<<<"str", "Storm hits">>, <<"str", "storm Hits">>>>>>}

BatchInit ==
    /\ ServiceInit
    /\ GateIdle
    /\ CleanIdle
    /\ WindowIdle
    /\ ClusterIdle
    /\ ScoreIdle
    /\ SentimentIdle
    /\ RecordIdle
    /\ MoreIdle
    /\ bsettings \in BatchSettings
    /\ bpc = "collect"
    /\ llm_calls = 0
    /\ llm_first = "none"
    /\ llm_failed = FALSE
    /\ fb_calls = 0
    /\ bpath = "idle"
    /\ candidates = <<>>
    /\ topics = <<>>
    /\ emitted = <<>>
    /\ bdone = 0

batchFrame == <<serviceVars, gateVars, cleanVars, windowVars, clusterVars,
                eidx, tbytes, tcounts, headline, hscore, fb_args, fb_out,
                bsettings, sentimentVars, recordVars, moreVars>>

\* mutant of CollectWindow: the window size is not tested
CollectWindowNoGate ==
    /\ bpc = "collect"
    /\ bdone < MaxBatches
    /\ \E b \in PipelineWindows :
           /\ batch' = b
           /\ IF Len(b) = 0
                  THEN bpc' = "collect" /\ bpath' = "empty"
                       /\ bdone' = bdone + 1
                  ELSE bpc' = "attempt1" /\ bpath' = "model"
                       /\ bdone' = bdone
    /\ llm_calls' = 0
    /\ llm_first' = "none"
    /\ llm_failed' = FALSE
    /\ fb_calls' = 0
    /\ candidates' = <<>>
    /\ topics' = <<>>
    /\ emitted' = <<>>
    /\ UNCHANGED batchFrame

\* main.py:56-66 and 79-80: the window is collected; an empty one is
\* reported and skipped, a short one goes to the fallback branch, any other
\* one to generate_batch_headlines
CollectWindow ==
    /\ bpc = "collect"
    /\ bdone < MaxBatches
    /\ \E b \in PipelineWindows :
           /\ batch' = b
           /\ IF Len(b) = 0
                  THEN bpc' = "collect" /\ bpath' = "empty"
                       /\ bdone' = bdone + 1
              ELSE IF Len(b) < bsettings.min_edits_for_llm
                  THEN bpc' = "fallback" /\ bpath' = "small"
                       /\ bdone' = bdone
                  ELSE bpc' = "attempt1" /\ bpath' = "model"
                       /\ bdone' = bdone
    /\ llm_calls' = 0
    /\ llm_first' = "none"
    /\ llm_failed' = FALSE
    /\ fb_calls' = 0
    /\ candidates' = <<>>
    /\ topics' = <<>>
    /\ emitted' = <<>>
    /\ UNCHANGED batchFrame

\* mutant of AttemptRaises: run has no `except Exception`
AttemptRaisesUncaught ==
    /\ bpc \in {"attempt1", "attempt2"}
    /\ \E err \in LlmErrors :
           /\ llm_calls' = llm_calls + 1
           /\ llm_failed' = TRUE
           /\ bpath' = "error"
           /\ bpc' = "crashed"
    /\ UNCHANGED <<batch, llm_first, fb_calls, candidates, topics, emitted,
                   bdone, batchFrame>>

\* llm.py:173 / 179 with main.py:81-85: _call_ollama raises, the exception
\* leaves generate_batch_headlines and `except Exception` takes the
\* fallback branch
AttemptRaises ==
    /\ bpc \in {"attempt1", "attempt2"}
    /\ \E err \in LlmErrors :
           /\ llm_calls' = llm_calls + 1
           /\ llm_failed' = TRUE
           /\ bpath' = "error"
           /\ bpc' = "fallback"
    /\ UNCHANGED <<batch, llm_first, fb_calls, candidates, topics, emitted,
                   bdone, batchFrame>>

\* llm.py:182-200 on the parsed items, with n = want = top_headlines * 2
\* (main.py:80)
Finish(items) ==
    LET want == bsettings.top_headlines * 2
        acc == CleanFrom(items, 1, <<>>, {}, want, bsettings.max_words)
    IN  /\ candidates' = Postprocess(items, batch, want, bsettings.max_words)
        /\ IF Len(acc) = 0
               THEN /\ llm_failed' = TRUE
                    /\ fb_calls' = fb_calls + 1
                    /\ bpath' = "inner"
               ELSE UNCHANGED <<llm_failed, fb_calls, bpath>>
        /\ bpc' = "score"

\* llm.py:173-177: the first call returns; without items the second attempt
\* follows
Attempt1Returns ==
    /\ bpc = "attempt1"
    /\ \E content \in Responses :
           LET items == parse_json_array(content)
           IN  /\ llm_calls' = llm_calls + 1
               /\ IF Len(items) = 0
                      THEN /\ llm_first' = "empty"
                           /\ bpc' = "attempt2"
                           /\ UNCHANGED <<candidates, llm_failed, fb_calls,
                                          bpath>>
                      ELSE /\ llm_first' = "items"
                           /\ Finish(items)
    /\ UNCHANGED <<batch, topics, emitted, bdone, batchFrame>>

\* llm.py:178-200: the second call returns
Attempt2Returns ==
    /\ bpc = "attempt2"
    /\ \E content \in Responses :
           /\ llm_calls' = llm_calls + 1
           /\ Finish(parse_json_array(content))
    /\ UNCHANGED <<batch, llm_first, topics, emitted, bdone, batchFrame>>

\* main.py:67-69 and 86: simple_fallback_headlines with n = top_headlines
FallbackPath ==
    /\ bpc = "fallback"
    /\ candidates' = simple_fallback_headlines(batch, bsettings.top_headlines,
                                               bsettings.max_words)
    /\ fb_calls' = fb_calls + 1
    /\ bpc' = "score"
    /\ UNCHANGED <<batch, llm_calls, llm_first, llm_failed, bpath, topics,
                   emitted, bdone, batchFrame>>

\* main.py:71-76, 87-92 and 95-99: term maps, scores, clusters, fusion, and
\* the first top_headlines groups are printed
ScoreAndPrint ==
    /\ bpc = "score"
    /\ \E sc \in ScoredLists(candidates, term_maps(batch)) :
           /\ topics' = fuse_phrasal_near_dupes(
                            cluster_and_merge(sc, bsettings.jaccard_threshold),
                            bsettings.phrasal_fuse_threshold)
           /\ emitted' = Take(topics', bsettings.top_headlines)
    /\ bpc' = "collect"
    /\ bdone' = bdone + 1
    /\ UNCHANGED <<batch, llm_calls, llm_first, llm_failed, fb_calls, bpath,
                   candidates, batchFrame>>

NextBatch ==
    \/ CollectWindow
    \/ AttemptRaises
    \/ Attempt1Returns
    \/ Attempt2Returns
    \/ FallbackPath
    \/ ScoreAndPrint
BatchSpec == BatchInit /\ [][NextBatch]_vars

\* ------------------------------------------ sentiment labels (api, main)
\* compound scores are in ten-thousandths (VADER rounds them to 4 decimals)
Unit == 10000
\* the literal 0.2 of api.py:79 and main.py:31
LABEL_THRESHOLD == 2000

\* a computed number is <<num, den, eps>>: the fraction num / den, plus or
\* minus one unit in the last place of the double when eps is 1 or -1
Above(x, t) == x[1] > t * x[2] \/ (x[1] = t * x[2] /\ x[3] > 0)
Below(x, t) == x[1] < t * x[2] \/ (x[1] = t * x[2] /\ x[3] < 0)

\* mutant of sentiment: the bounds are inclusive
sentiment_inclusive(x) ==
    IF ~Below(x, LABEL_THRESHOLD) THEN "positive"
    ELSE IF ~Above(x, 0 - LABEL_THRESHOLD) THEN "negative"
    ELSE "neutral"

\* _sentiment, api.py:78-79, and the same conditional of main.py:31
sentiment(x) ==
    IF Above(x, LABEL_THRESHOLD) THEN "positive"
    ELSE IF Below(x, 0 - LABEL_THRESHOLD) THEN "negative"
    ELSE "neutral"

\* sum(scores)
RECURSIVE SumSeq(_)
SumSeq(l) == IF Len(l) = 0 THEN 0 ELSE Head(l) + SumSeq(Tail(l))

\* main.py:30: avg = sum(scores) / max(1, len(scores)). The sum of one score
\* is exact; a sum of several doubles is rounded, so the quotient can be one
\* unit in the last place away from the exact mean (sum([0.1, 0.2, 0.3]) / 3
\* is 0.20000000000000004).
WindowAvgs(l) ==
    {<<SumSeq(l), Max(1, Len(l)), e>> :
         e \in IF Len(l) >= 2 THEN {0 - 1, 0, 1} ELSE {0}}

\* the scores explored
Compounds ==
    {0 - 10000, 0 - 2001, 0 - 2000, 0 - 1999, 0, 1999, 2000, 2001, 2005, 10000}
MoodScores == {0 - 10000, 0 - 2000, 0, 1000, 2000, 3000, 10000}
ScoreLists == UNION {[1..n -> MoodScores] : n \in 0..MaxEntries}

SentimentInit ==
    /\ ServiceInit
    /\ GateIdle
    /\ CleanIdle
    /\ WindowIdle
    /\ ClusterIdle
    /\ ScoreIdle
    /\ BatchIdle
    /\ RecordIdle
    /\ MoreIdle
    /\ compound \in Compounds
    /\ label = "none"
    /\ wscores \in ScoreLists
    /\ avg = <<>>
    /\ mood = "none"

sentimentFrame == <<serviceVars, gateVars, cleanVars, windowVars, clusterVars,
                    scoreVars, batchVars, recordVars, moreVars>>

\* _sentiment(compound), api.py:78-79
Label ==
    /\ label = "none"
    /\ label' = sentiment(<<compound, 1, 0>>)
    /\ UNCHANGED <<compound, wscores, avg, mood, sentimentFrame>>

\* _window_mood(batch), main.py:26-31, on the scores the analyzer gave
WindowMood ==
    /\ mood = "none"
    /\ \E a \in WindowAvgs(wscores) :
           /\ avg' = a
           /\ mood' = sentiment(a)
    /\ UNCHANGED <<compound, label, wscores, sentimentFrame>>

NextSentiment == Label \/ WindowMood
SentimentSpec == SentimentInit /\ [][NextSentiment]_vars

\* ------------------------------------- api.py: one record per event
\* ev.get(key, default)
EvGet(ev, key, default) == IF key \in DOMAIN ev THEN ev[key] ELSE default

\* round(comp, 3) of a score in ten-thousandths: the nearest thousandth; for
\* a last digit 5 the double nearest to the decimal decides which one
Round3(c) ==
    LET r == c % 10
    IN  IF r = 0 THEN {c}
        ELSE IF r < 5 THEN {c - r}
        ELSE IF r > 5 THEN {c - r + 10}
        ELSE {c - r, c - r + 10}

\* generate_headline_for_edit(title, comment, settings) is imported by
\* api.py:51 from llm.py, which does not define it; as the generation
\* boundary is described, it returns a generated headline or, when the
\* collaborator is unusable, the Fallback Generator's phrase for the event,
\* and never raises
GeneratedHeadlines == {"Storm surge hits coast"}
generate_headline_for_edit(title, comment) ==
    LET fb == simple_fallback_headlines(
                  <<[title |-> title, comment |-> comment, delta |-> 0]>>,
                  1, 8)
    IN  GeneratedHeadlines \cup {IF Len(fb) = 0 THEN "" ELSE fb[1]}

\* n in decimal, padded with zeros to `width` digits
RECURSIVE Padded(_, _)
Padded(n, width) ==
    IF width = 0 THEN ""
    ELSE Padded(n \div 10, width - 1) \o Ch("0123456789", (n % 10) + 1)

\* the proleptic Gregorian date <<year, month, day>> of day number z,
\* counted from 1970-01-01, for z >= 0
civil_from_days(z) ==
    LET zz == z + 719468
        era == zz \div 146097
        doe == zz - era * 146097
        yoe == (doe - doe \div 1460 + doe \div 36524 - doe \div 146096)
                   \div 365
        doy == doe - (365 * yoe + yoe \div 4 - yoe \div 100)
        mp == (5 * doy + 2) \div 153
        d == doy - (153 * mp + 2) \div 5 + 1
        m == IF mp < 10 THEN mp + 3 ELSE mp - 9
        y == yoe + era * 400 + (IF m <= 2 THEN 1 ELSE 0)
    IN  <<y, m, d>>

\* api.py:110: datetime.fromtimestamp(ts, tz=timezone.utc).isoformat() for
\* an integer ts >= 0
iso_utc(ts) ==
    LET date == civil_from_days(ts \div 86400)
        secs == ts % 86400
    IN  Padded(date[1], 4) \o "-" \o Padded(date[2], 2) \o "-"
        \o Padded(date[3], 2) \o "T" \o Padded(secs \div 3600, 2) \o ":"
        \o Padded((secs % 3600) \div 60, 2) \o ":" \o Padded(secs % 60, 2)
        \o "+00:00"

\* the record of api.py:98-111 for event ev, headline h and compound comp,
\* rounded to r3
record_from_event(ev, h, comp, r3) ==
    [headline |-> h,
     title |-> EvGet(ev, "title", ""),
     editor |-> EvGet(ev, "user", ""),
     byte_diff |-> EvGet(ev, "delta", 0),
     comment |-> IF EvGet(ev, "comment", "") = "" THEN "No comment"
                 ELSE EvGet(ev, "comment", ""),
     sentiment |-> [label |-> sentiment(<<comp, 1, 0>>), compound |-> r3],
     iso_time |-> iso_utc(EvGet(ev, "timestamp", 0))]

\* the events and the number of records explored
MaxRecords == 2
RecEvents ==
    [title : {"", "Storm"}, comment : {"", "storm surge"}, user : {"Ann"},
     ts : {0, 951825599, 1700000000}, delta : {0, 7}, is_edit : {TRUE}, is_bot : {FALSE}]

RecordInit ==
    /\ ServiceInit
    /\ GateIdle
    /\ CleanIdle
    /\ WindowIdle
    /\ ClusterIdle
    /\ ScoreIdle
    /\ BatchIdle
    /\ SentimentIdle
    /\ RecordIdle
    /\ MoreIdle

recordFrame == <<serviceVars, gateVars, cleanVars, windowVars, clusterVars,
                 scoreVars, batchVars, sentimentVars, moreVars>>

\* api.py:130-132: the generator yields an event and the stop flag is clear
NextEvent ==
    /\ rpc = "next"
    /\ rcount < MaxRecords
    /\ rev' \in RecEvents
    /\ rpc' = "build"
    /\ sent_failed' = FALSE
    /\ UNCHANGED <<rec, rcount, rcrashed, recordFrame>>

\* api.py:133-135 with 82-111: the record is built, appended and broadcast
RecordBuilt ==
    /\ rpc = "build"
    /\ \E h \in generate_headline_for_edit(EvGet(rev, "title", ""),
                    IF EvGet(rev, "comment", "") = "" THEN "No comment"
                    ELSE EvGet(rev, "comment", "")) :
           \E comp \in Compounds :
               \E r3 \in Round3(comp) :
                   rec' = record_from_event(rev, h, comp, r3)
    /\ rcount' = rcount + 1
    /\ rpc' = "next"
    /\ UNCHANGED <<rev, rcrashed, sent_failed, recordFrame>>

\* api.py:96 raises (the analyzer fails or is unavailable): the exception
\* leaves _record_from_event and `except Exception` of api.py:136-137 logs
\* it; the task ends
SentimentRaises ==
    /\ rpc = "build"
    /\ sent_failed' = TRUE
    /\ rcrashed' = TRUE
    /\ rpc' = "done"
    /\ UNCHANGED <<rev, rec, rcount, recordFrame>>

NextRecord == NextEvent \/ RecordBuilt \/ SentimentRaises
RecordSpec == RecordInit /\ [][NextRecord]_vars

\* --------------------------------------------------------------- properties
Range(s) == {s[i] : i \in 1..Len(s)}
Increasing(s) == \A i, j \in 1..Len(s) : i < j => s[i] < s[j]

\* what a client has been handed so far: frames sent, then records queued
Stream(s) == received[s] \o queue[s]

\* last publish whose list(_clients) contained s
LastFor(s) ==
    IF spc[s] = "none" THEN 0
    ELSE IF s \in clients THEN Broadcasts ELSE until[s]

\* _broadcast has s in its list and has not finished s's put_nowait
Pending(s) == ppc = "put" /\ (s \in snap \/ cur = s)

\* the publishes made while s was registered whose put_nowait on s is over
HandledFor(s) ==
    {k \in (since[s] + 1)..LastFor(s) : ~(Pending(s) /\ k = Rec)}

\* s was in the list(_clients) of the publish in flight
InSnapshot(s) == spc[s] # "none" /\ since[s] < Rec /\ Rec <= LastFor(s)

\* a step of _broadcast's loop
BroadcastStep == ppc = "put" /\ <<snap, cur, ppc>>' # <<snap, cur, ppc>>

\* ---- C1
\* C1: a publish never waits and never raises: while _broadcast is in its
\* loop the producer always has a step, whatever the queues hold; visiting a
\* queue with room commits the record to that queue's tail (the room cannot
\* vanish before the append), visiting a full queue drops the record for that
\* subscriber and leaves every queue as it was.
C1_StepEffect ==
    BroadcastStep =>
        \A q \in Subs :
            IF cur = q
               THEN /\ queue'[q] = Append(queue[q], Rec)
                    /\ Len(queue'[q]) <= QUEUE_MAXSIZE
            ELSE IF q \in snap \ snap'
               THEN /\ queue'[q] = queue[q]
                    /\ IF Len(queue[q]) < QUEUE_MAXSIZE
                          THEN cur' = q /\ dropped' = dropped
                          ELSE /\ cur' = NoSub
                               /\ dropped'[q] = dropped[q] \cup {Rec}
                               /\ \A o \in Subs \ {q} : dropped'[o] = dropped[o]
            ELSE queue'[q] = queue[q]

C1_NeverWaits ==
    /\ ppc = "put" => ENABLED (PutCheck \/ PutAppend)
    /\ cur # NoSub => Len(queue[cur]) < QUEUE_MAXSIZE

C1_PublishNeverBlocks == [](C1_NeverWaits) /\ [][C1_StepEffect]_vars

\* C1 witness: one publish was dropped for a full subscriber and enqueued at
\* the tail of another, and the publish has returned
C1_Witness ==
    /\ ppc = "read"
    /\ \E s, o \in Subs :
          /\ s # o
          /\ Rec \in dropped[s]
          /\ Len(queue[s]) = QUEUE_MAXSIZE
          /\ queue[o] # <<>>
          /\ queue[o][Len(queue[o])] = Rec

\* ---- C2
\* C2: no queue ever holds more than its maxsize; a subscriber that has read
\* nothing holds exactly the first min(k, maxsize) of the k records published
\* to it since it registered, in publish order; and the producer is never
\* held up by it.
C2_QueueBounded ==
    /\ \A s \in Subs : Len(queue[s]) <= QUEUE_MAXSIZE
    /\ \A s \in Subs :
          received[s] = <<>> =>
              LET k == Cardinality(HandledFor(s))
              IN  queue[s] = [i \in 1..Min(k, QUEUE_MAXSIZE) |-> since[s] + i]
    /\ ppc \in {"broadcast", "put"} => ENABLED HubProducerStep

\* C2 witness: more records than the queue holds were published to a
\* subscriber that never read, and the producer is past all of them
C2_Witness ==
    /\ ppc = "read"
    /\ \E s \in Subs :
          /\ received[s] = <<>>
          /\ Cardinality(HandledFor(s)) > QUEUE_MAXSIZE
          /\ Len(queue[s]) = QUEUE_MAXSIZE

\* ---- C3
\* C3: after N publishes the recent buffer holds exactly the last
\* min(N, RECENT_MAX) published records, oldest first.
C3_RecentHoldsLast ==
    LET N == Len(published)
        m == Min(N, RECENT_MAX)
    IN  /\ published = [i \in 1..N |-> i]
        /\ recent = [i \in 1..m |-> published[N - m + i]]

\* C3 witness: more than RECENT_MAX publishes, the oldest evicted, with a
\* subscriber registered
C3_Witness ==
    /\ Len(published) > RECENT_MAX
    /\ Len(recent) = RECENT_MAX
    /\ recent[1] = Len(published) - RECENT_MAX + 1
    /\ clients # {}

\* ---- C4
\* C4: what a subscriber is handed (frames sent, then records queued) is the
\* publish sequence restricted to the publishes made while it was registered,
\* in publish order and without repetition, minus exactly the records
\* dropped on a full queue.
C4_DeliveryOrder ==
    \A s \in Subs :
        /\ Increasing(Stream(s))
        /\ Range(Stream(s)) \cup dropped[s] = HandledFor(s)
        /\ Range(Stream(s)) \cap dropped[s] = {}

\* C4 witness: a subscriber that was sent frames, lost a record to a full
\* queue and was handed a later record after the loss
C4_Witness ==
    \E s \in Subs :
        /\ Len(received[s]) >= 2
        /\ \E d \in dropped[s] : \E k \in Range(Stream(s)) : k > d

\* ---- C5
\* C5: registering or deregistering while a publish is in flight is safe: the
\* step leaves the publish's list of queues, its position and every queue
\* untouched; the publish ends with the record enqueued to, or dropped on a
\* full queue of, every subscriber that was in the list; and a deregistered
\* subscriber is not in the registry.
C5_RegistryStep ==
    /\ (ppc = "put" /\ clients' # clients) =>
           <<snap, cur, queue, dropped, ppc>>' = <<snap, cur, queue, dropped, ppc>>
    /\ (ppc = "put" /\ ppc' = "read") =>
           \A s \in Subs :
               InSnapshot(s) => Rec \in Range(Stream(s)) \cup dropped[s]

C5_Registry ==
    /\ \A s \in Subs : spc[s] = "closed" => s \notin clients
    /\ (ppc = "put" /\ ~(snap \subseteq clients)) =>
           ENABLED (PutCheck \/ PutAppend)

C5_UnsubscribeSafe ==
    /\ []C5_Registry
    /\ [][C5_RegistryStep]_vars

\* C5 witness: a publish in flight with two queues still to visit, one of
\* them already removed from the registry
C5_Witness ==
    /\ ppc = "put"
    /\ \E s, o \in snap :
          /\ s # o
          /\ s \notin clients
          /\ spc[s] = "closed"
          /\ o \in clients



\* ---- C6
\* C6: a subscriber whose peer has disconnected gets itself out of the
\* registry without the producer: as long as it is disconnected and still
\* registered, its own event_gen has a step to take (the disconnect test or
\* the removal), whatever the producer does or fails to do.
C6_DisconnectDetected ==
    \A s \in Subs :
        (disconnected[s] /\ s \in clients) => ENABLED SubscriberStep(s)

\* ---- C7
\* C7: once the stop flag is set the producer terminates, whether or not a
\* later payload passes the gates, and publishes nothing after it has seen
\* the flag.
C7_ShutdownStopsProducer ==
    /\ stop_event ~> (ppc = "done")
    /\ [][observed => published' = published]_vars

\* ---- C8
\* C8: recent(n) answers, for every integer n, the last
\* min(min(max(n, 1), RECENT_MAX), |buffer|) records of the buffer, oldest
\* first, and changes neither the buffer nor the registry nor any queue.
C8_Step ==
    resp' # resp =>
        LET n == resp'[1]
            m == Min(Min(Max(n, 1), RECENT_MAX), Len(recent))
        IN  /\ n \in QueryNs
            /\ resp'[2] = [i \in 1..m |-> recent[Len(recent) - m + i]]
            /\ <<recent, clients, queue, published>>' =
                   <<recent, clients, queue, published>>

C8_RecentQuery == [][C8_Step]_vars

\* C8 witness: a query with n below 1 answered with the single newest record
\* of a buffer that holds more, with a subscriber registered
C8_Witness ==
    /\ resp[1] < 1
    /\ Len(recent) = RECENT_MAX
    /\ resp[2] = <<recent[Len(recent)]>>
    /\ clients # {}

\* ---- C9
\* C9: the n-th consecutive failure (n = 0, 1, ...) waits
\* min(sse_retry_base_s * 2^n, sse_retry_max_s) seconds plus the jitter:
\* 3, 6, 12, 20, 20, ... and 3 again after a clean session.
C9_ConfiguredBackoff ==
    ppc = "sleep" =>
        \E j \in JitterSet :
            wait = Min(sse_retry_base_s * 2 ^ (failures - 1), sse_retry_max_s)
                       * Centi + j

\* ---- C10
\* C10: backoff is at its initial value exactly when no session has failed
\* since the start or the last clean session: a clean end sets it to the
\* initial value, so the next error waits the initial wait whatever came
\* before; a failed session raises it and never resets it; nothing else
\* (reading, gating, yielding, publishing) changes it.
C10_State ==
    /\ backoff = BACKOFF_INIT <=>
           (failures = 0 \/ (failures = 1 /\ ppc = "sleep"))
    /\ (ppc = "sleep" /\ failures = 1) =>
           wait \in {BACKOFF_INIT * Centi + j : j \in JitterSet}

C10_Step ==
    LET cleanEnd == ppc = "read" /\ ppc' = "connect"
        failedEnd == ppc = "sleep" /\ ppc' # "sleep"
    IN  /\ cleanEnd => backoff' = BACKOFF_INIT
        /\ failedEnd => /\ backoff' = Min(2 * backoff, BACKOFF_CAP)
                        /\ backoff' > BACKOFF_INIT
        /\ (~cleanEnd /\ ~failedEnd) => backoff' = backoff

C10_ResetExactlyOnClean == []C10_State /\ [][C10_Step]_vars

\* C10 witness: three or more failures, then a clean session, then an error
\* that waits the initial wait, in a run that yielded events
C10_Witness ==
    /\ ppc = "sleep"
    /\ failures = 1
    /\ resetFrom >= 3
    /\ wait < (BACKOFF_INIT + 1) * Centi
    /\ published # <<>>

\* ---- C11
\* positions of the producer thread inside event_generator's `while True`
GenPositions == {"connect", "read", "gate", "sleep"}

\* an exception while connecting or reading is followed by the backoff wait,
\* the wait by a new connect attempt, a clean end of the stream by a new
\* connect attempt, and no step of the generator ends the sequence
C11_Step ==
    /\ (ppc \in {"connect", "read", "gate"} /\ failures' = failures + 1) =>
           /\ ppc' = "sleep"
           /\ wait' > Min(backoff, BACKOFF_CAP) * Centi
    /\ (ppc = "sleep" /\ ppc' # ppc) => ppc' = "connect"
    /\ (ppc = "read" /\ ppc' \notin {"read", "gate", "sleep"}) =>
           ppc' = "connect"
    /\ ppc \in GenPositions => ppc' # "done"

\* inside the generator some step of it is always possible
C11_Alive == ppc \in GenPositions => ENABLED GenProducerStep

\* C11: event_generator never terminates voluntarily: every exception while
\* connecting or reading leads to the backoff wait and then to a new connect
\* attempt, a clean end of the stream leads to a new connect attempt, and the
\* generator never signals end-of-sequence (the thread leaves it only when
\* its consumer breaks out of the for loop or crashes).
C11_NeverTerminates ==
    /\ []C11_Alive
    /\ [][C11_Step]_vars
    /\ (ppc = "sleep") ~> (ppc = "connect")

\* C11 witness: connected again after a failure that followed a clean end
\* of a session that had itself followed a failure
C11_Witness ==
    /\ ppc = "read"
    /\ resetFrom >= 1
    /\ failures >= 1
    /\ backoff > BACKOFF_INIT

\* ---- C12
\* payloads the claim calls malformed: not a message, not JSON, or JSON that
\* is not an object ("unparsable": JSON text such as a 5000-digit number or
\* an array nested 200000 deep, on which json.loads raises ValueError /
\* RecursionError, neither of them a JSONDecodeError)
MalformedPayloads == {"malformed", "unparsable"}

\* C12: a malformed payload is skipped silently: nothing is yielded for it,
\* the loop goes on reading the same connection, and backoff and the failure
\* counter are unchanged.
C12_MalformedSkipped ==
    [][(ppc = "gate" /\ raw \in MalformedPayloads /\ ppc' # ppc) =>
           /\ ppc' = "read"
           /\ UNCHANGED <<backoff, wait, failures, resetFrom, published,
                          recent>>]_vars

\* ---- C13
\* the gating of the payload has ended
GateDone == gstat \in {"rejected", "yielded", "raised"}

\* C13: the gates are evaluated in the fixed order source-site, namespace,
\* event-type, automated-editor, minimum title length, comment presence,
\* minimum absolute byte delta; a payload is rejected at the first gate it
\* fails, no later gate and no normalization is evaluated for it, and a
\* payload failing all seven gates is rejected by the source-site gate.
C13_FirstFailingGate ==
    LET order == <<"wiki", "namespace", "type", "bot", "title", "comment",
                   "delta">>
        fails(i) == ~GateOk(order[i], change, settings)
    IN  /\ gstat # "idle" =>
               evaluated = SubSeq(order, 1, Len(evaluated))
        /\ gstat = "rejected" =>
               /\ fails(Len(evaluated))
               /\ \A i \in 1..(Len(evaluated) - 1) : ~fails(i)
               /\ event = <<>>
               /\ (\A i \in 1..7 : fails(i)) => evaluated = <<"wiki">>

\* C13 witness: a payload that fails all seven gates has been rejected by
\* the first one
C13_Witness ==
    /\ gstat = "rejected"
    /\ \A i \in 1..Len(GateOrder) : ~GateOk(GateOrder[i], change, settings)
    /\ evaluated = <<"wiki">>

\* ---- C14
\* C14: an object payload is yielded if and only if it passes all seven
\* gates under the active configuration; every yielded event satisfies the
\* seven conditions and exactly one event is yielded per passing payload.
C14_YieldedIffPasses ==
    LET passes == \A i \in 1..Len(GateOrder) :
                      GateOk(GateOrder[i], change, settings)
    IN  GateDone =>
            /\ gstat = "yielded" <=> passes
            /\ Len(event) = (IF passes THEN 1 ELSE 0)

C16_NoMarkup ==
    cleaned.done =>
        \A p \in LinkTokens \cup {"http://", "https://"} :
            ~Contains(cleaned.title, p) /\ ~Contains(cleaned.comment, p)

\* C16 witness: a text with link markup and a URL was normalized to a
\* non-empty title and a non-empty comment
C16_Witness ==
    /\ cleaned.done
    /\ Contains(src_text, "[[")
    /\ Contains(src_text, "http://")
    /\ cleaned.title # ""
    /\ cleaned.comment # ""

\* ---- C17
\* every item of the open window that was followed by another time check
\* that passed had arrived before the nominal end: only the last item of a
\* window can be late
C17_State ==
    \A i \in 1..(Len(win_at) - 1) : win_at[i] - win_start < win_seconds

C17_Step ==
    LET elapsed == clock - win_start
        returns == wpc # "returned" /\ wpc' = "returned"
    IN  /\ returns =>
               /\ \/ wpc = "check" /\ elapsed >= win_seconds
                  \/ wpc = "fetch" /\ gen_live' # "live"
                                   /\ gen_count' = gen_count
               /\ windows' = Append(windows, win_out)
        /\ (wpc = "check" /\ wpc' # wpc) =>
               /\ wpc' = "returned" <=> elapsed >= win_seconds
               /\ wpc' = "fetch" <=> elapsed < win_seconds
        /\ (wpc = "fetch" /\ wpc' = "check") =>
               /\ gen_count' = gen_count + 1
               /\ win_out' = Append(win_out, gen_count')
        /\ (wpc = "fetch" /\ clock' # clock) => wpc' = "fetch"

\* C17: collect_window(gen, S) returns as soon as the sequence ends or the
\* elapsed-time check finds that S seconds have passed; the check is made
\* only between items, so a started fetch is never preempted, an item that
\* arrives after the nominal end of the window is still included in it, and
\* the window then returns without fetching another item.
C17_WindowEnds == []C17_State /\ [][C17_Step]_vars

\* C17 witness: a window has returned whose last item arrived after the
\* nominal end of the window
C17_Witness ==
    /\ wpc = "returned"
    /\ win_seconds > 0
    /\ Len(win_out) >= 2
    /\ win_at[Len(win_at)] - win_start > win_seconds
    /\ windows[Len(windows)] = win_out

\* ---- C18
\* C18: when the underlying sequence raises an error while producing an item,
\* collect_window ends the window early and returns the events collected so
\* far; the error does not reach the caller.
C18_ErrorEndsWindow ==
    [][(wpc = "fetch" /\ gen_live = "live" /\ gen_live' = "raised") =>
           /\ wpc' = "returned"
           /\ windows' = Append(windows, win_out)]_vars

\* ---- C19
\* sum(score for _, score in items)
RECURSIVE SumScores(_)
SumScores(items) ==
    IF Len(items) = 0 THEN 0
    ELSE SumScores(SubSeq(items, 1, Len(items) - 1)) + items[Len(items)][2]

\* C19: after every processed candidate each cluster's total is the sum of
\* the scores of its members, and so is the total of every returned cluster.
C19_TotalIsSum ==
    /\ \A k \in 1..Len(clusters) :
           clusters[k].sum = SumScores(clusters[k].items)
    /\ \A k \in 1..Len(merged) : merged[k][2] = SumScores(merged[k][3])

\* C19 witness: two clusters were returned, one of them with two members
\* of different scores
C19_Witness ==
    /\ returned
    /\ Len(merged) >= 2
    /\ \E k \in 1..Len(merged) :
           /\ Len(merged[k][3]) = 2
           /\ merged[k][3][1][2] # merged[k][3][2][2]
           /\ merged[k][2] = 3

\* ---- C20
\* C20: feeding the same candidate text twice never creates two clusters for
\* it, whatever the list and the threshold (<= 1.0): once both occurrences
\* are processed, exactly one cluster has members with that text.
C20_DuplicateJoins ==
    \A i, j \in 1..(cidx - 1) :
        (i < j /\ scored[i][1] = scored[j][1]) =>
            Cardinality({k \in 1..Len(clusters) :
                            \E m \in 1..Len(clusters[k].items) :
                                clusters[k].items[m][1] = scored[i][1]}) = 1

\* ---- C21
\* the two paraphrases of the storm example, fed in either order
C21_Pair == {"Storm hits coastal city", "Coastal city hit by storm"}
C21_Input ==
    /\ Len(scored) = 2
    /\ {scored[1][1], scored[2][1]} = C21_Pair

\* C21: "Storm hits coastal city" and "Coastal city hit by storm" come back
\* as one cluster when the threshold is 0.69 and as two clusters when it is
\* 0.95.
C21_StormExample ==
    (returned /\ C21_Input) =>
        /\ sim_thresh = 69 => Len(merged) = 1
        /\ sim_thresh = 95 => Len(merged) = 2

\* ---- C22
\* C22: the similarity the clusterer computes for the next candidate against
\* each open cluster is the one jaccard_tokens gives for the same two token
\* sets (1.0 when both are empty, 0.0 when exactly one is), and a candidate
\* with no tokens joins an open cluster that has none.
C22_SimilarityAgrees ==
    /\ \A i \in 1..Len(scored), k \in 1..Len(clusters) :
           LET sim == cluster_sim(words_for_similarity(scored[i][1]),
                                  clusters[k].tok)
               ref == jaccard_tokens(scored[i][1], clusters[k].repr)
           IN  Len(clusters[k].items) = 1 =>
                   sim[1] * ref[2] = ref[1] * sim[2]
    /\ \A i, j \in 1..(cidx - 1) :
           (i < j /\ words_for_similarity(scored[i][1]) = {}
                  /\ words_for_similarity(scored[j][1]) = {}) =>
               \E k \in 1..Len(clusters) :
                   \E m, n \in 1..Len(clusters[k].items) :
                       /\ m < n
                       /\ clusters[k].items[m] = scored[i]
                       /\ clusters[k].items[n] = scored[j]

\* ---- C23
\* number of occurrences of w in the token list
RECURSIVE C23_Occurrences(_, _)
C23_Occurrences(w, toks) ==
    IF Len(toks) = 0 THEN 0
    ELSE (IF Head(toks) = w THEN 1 ELSE 0) + C23_Occurrences(w, Tail(toks))

\* sum of max(0, delta) over the first i events whose text contains w, each
\* event counted once
RECURSIVE C23_Bytes(_, _)
C23_Bytes(w, i) ==
    IF i = 0 THEN 0
    ELSE C23_Bytes(w, i - 1)
         + (IF C23_Occurrences(w, tokens(EntryText(batch[i]))) > 0
                THEN EntryDelta(batch[i]) ELSE 0)

\* occurrences of w in the first i events
RECURSIVE C23_Count(_, _)
C23_Count(w, i) ==
    IF i = 0 THEN 0
    ELSE C23_Count(w, i - 1)
         + C23_Occurrences(w, tokens(EntryText(batch[i])))

\* C23: after term_maps has processed a prefix of the window, termBytes of
\* each token is the sum of max(0, byteDelta) over the processed events whose
\* cleaned text contains the token, each event counted once, and termCounts
\* of the token is its total number of occurrences in them.
C23_TermMaps ==
    /\ DOMAIN tbytes = DOMAIN tcounts
    /\ \A w \in DOMAIN tcounts :
           /\ tcounts[w] = C23_Count(w, eidx - 1)
           /\ tbytes[w] = C23_Bytes(w, eidx - 1)

\* ---- C24
\* C24: the score returned for a headline is the blended value
\* blend * byteOverlap + (1 - blend) * freqOverlap * unitScale rounded to the
\* nearest integer (so it is within one half of that value), and unitScale
\* is 1 when the window has no tokens.
C24_Rounded ==
    hscore # <<>> =>
        /\ Abs(Centi * hscore[1] - BlendCenti(headline, tbytes, tcounts))
               * 2 <= Centi
        /\ DOMAIN tcounts = {} => unit_scale(tbytes, tcounts) = 1

\* ---- C25
\* C25: simple_fallback_headlines returns at least one headline for every
\* non-empty window and n >= 1.
C25_NeverEmpty ==
    (fb_args # <<>> /\ Len(batch) >= 1 /\ fb_args[1] >= 1) => Len(fb_out) >= 1

\* ---- C26
\* the headlines of the members of the emitted topics
C26_EmittedHeadlines ==
    UNION {{emitted[k][3][m][1] : m \in 1..Len(emitted[k][3])} :
               k \in 1..Len(emitted)}

\* C26: once the generation collaborator has failed for a window (a call
\* raised, or the attempts left no usable headline), the loop is never
\* stopped by it: it is in the fallback branch, scoring, or back at
\* collecting; the headlines scored are exactly those of the Fallback
\* Generator for that window, and every emitted headline is one of them.
C26_FailureFallsBack ==
    llm_failed =>
        /\ bpc \in {"fallback", "score", "collect"}
        /\ bpc # "fallback" =>
               /\ fb_calls = 1
               /\ candidates =
                      simple_fallback_headlines(batch,
                          IF bpath = "error" THEN bsettings.top_headlines
                          ELSE bsettings.top_headlines * 2,
                          bsettings.max_words)
        /\ bpc = "collect" =>
               /\ bdone >= 1
               /\ C26_EmittedHeadlines \subseteq
                      {candidates[i] : i \in 1..Len(candidates)}

\* C26 witness: the second attempt of a window raised, and the window ended
\* with a topic printed from the fallback headlines
C26_Witness ==
    /\ llm_failed
    /\ bpath = "error"
    /\ llm_calls = 2
    /\ bpc = "collect"
    /\ Len(emitted) >= 1

\* ---- C27
\* C27: the collaborator is called only for windows of at least
\* min_edits_for_llm events, at most twice per window and the second time
\* only after a first attempt without items; a shorter non-empty window is
\* served by the Fallback Generator; an empty window calls neither and
\* emits nothing.
C27_CallsGated ==
    /\ llm_calls > 0 => Len(batch) >= bsettings.min_edits_for_llm
    /\ llm_calls <= 2
    /\ llm_calls = 2 => llm_first = "empty"
    /\ (Len(batch) >= 1 /\ Len(batch) < bsettings.min_edits_for_llm
            /\ bpc \in {"score", "collect"}) =>
           /\ llm_calls = 0
           /\ fb_calls = 1
           /\ candidates =
                  simple_fallback_headlines(batch, bsettings.top_headlines,
                                            bsettings.max_words)
    /\ (bpath # "idle" /\ Len(batch) = 0) =>
           /\ llm_calls = 0
           /\ fb_calls = 0
           /\ emitted = <<>>

\* C27 witness: a window of one event, below min_edits_for_llm = 2, was
\* handled without the collaborator and a fallback topic was printed
C27_Witness ==
    /\ bsettings.min_edits_for_llm = 2
    /\ Len(batch) = 1
    /\ bpath = "small"
    /\ bpc = "collect"
    /\ llm_calls = 0
    /\ fb_calls = 1
    /\ Len(emitted) >= 1

\* ---- C28
\* C28: for a handled non-empty window the printed topics are the first
\* top_headlines groups of the fused list, which is in non-increasing order
\* of total score, so no printed topic has a lower total than a group left
\* out.
C28_TopK ==
    (bpc = "collect" /\ bpath \notin {"idle", "empty"}) =>
        /\ Len(emitted) <= bsettings.top_headlines
        /\ emitted = Take(topics, bsettings.top_headlines)
        /\ \A i, j \in 1..Len(topics) : i < j => topics[i][2] >= topics[j][2]
        /\ \A i \in 1..Len(emitted) :
               \A j \in (Len(emitted) + 1)..Len(topics) :
                   emitted[i][2] >= topics[j][2]

\* C28 witness: fusion produced more groups than top_headlines, of different
\* totals, the first one made of two clusters, and only the first two were
\* printed
C28_Witness ==
    /\ bpc = "collect"
    /\ bsettings.top_headlines = 2
    /\ Len(topics) = 3
    /\ Len(emitted) = 2
    /\ Len(topics[1][3]) = 2
    /\ topics[1][2] > topics[2][2]
    /\ topics[2][2] > topics[3][2]

\* ---- C29
\* C29: a computed score is labelled 'positive' exactly when it is greater
\* than 0.2, 'negative' exactly when it is less than -0.2 and 'neutral'
\* otherwise, so that 0.2 and -0.2 are 'neutral' and every score has exactly
\* one of the three labels; this holds for the per-event label and for the
\* window mood.
C29_Labels ==
    /\ label # "none" =>
           /\ label \in {"positive", "neutral", "negative"}
           /\ label = "positive" <=> compound > LABEL_THRESHOLD
           /\ label = "negative" <=> compound < 0 - LABEL_THRESHOLD
           /\ compound \in {LABEL_THRESHOLD, 0 - LABEL_THRESHOLD} =>
                  label = "neutral"
    /\ mood # "none" =>
           /\ mood \in {"positive", "neutral", "negative"}
           /\ mood = "positive" <=> Above(avg, LABEL_THRESHOLD)
           /\ mood = "negative" <=> Below(avg, 0 - LABEL_THRESHOLD)
           /\ (avg[3] = 0 /\ avg[1] \in {LABEL_THRESHOLD * avg[2],
                                         (0 - LABEL_THRESHOLD) * avg[2]}) =>
                  mood = "neutral"

\* C29 witness: the score 0.2 was labelled 'neutral', and so was a window of
\* two events whose average is exactly -0.2
C29_Witness ==
    /\ compound = LABEL_THRESHOLD
    /\ label = "neutral"
    /\ Len(wscores) = 2
    /\ avg = <<0 - 2 * LABEL_THRESHOLD, 2, 0>>
    /\ mood = "neutral"

\* ---- C30
\* C30: when the sentiment call fails for an event, the record of that event
\* is still appended and broadcast, with the label 'neutral', and the
\* producer task does not end.
C30_NeutralDefault ==
    sent_failed =>
        /\ ~rcrashed
        /\ rpc # "done"
        /\ rpc = "next" =>
               /\ rec # <<>>
               /\ rec.title = rev.title
               /\ rec.sentiment.label = "neutral"

\* ---- C31
\* a is what is left of b after records were taken from its front
IsSuffix(a, b) ==
    /\ Len(a) <= Len(b)
    /\ a = SubSeq(b, Len(b) - Len(a) + 1, Len(b))

\* the step on which `except Exception` is entered leaves the buffer, the
\* registry and the queues as they were; once it has been entered the
\* producer stays ended, nothing is appended to the buffer and the queues
\* only lose the records their readers take
C31_Step ==
    /\ (~crashed /\ crashed') =>
           /\ ppc = "build"
           /\ recent' = recent
           /\ clients' = clients
           /\ queue' = queue
    /\ crashed =>
           /\ crashed'
           /\ ppc' = "done"
           /\ recent' = recent
           /\ published' = published
           /\ \A s \in Subs : IsSuffix(queue'[s], queue[s])

\* C31: an exception raised in the producer task while a record is built is
\* logged and ends the task for good: afterwards no record is appended to
\* the recent buffer or put into a subscriber's queue, and the crash itself
\* leaves the buffered records and the registered subscribers as they were.
C31_CrashEndsProducer ==
    [](crashed => (ppc = "done" /\ snap = {} /\ cur = NoSub))
        /\ [][C31_Step]_vars

\* C31 witness: the producer has crashed with records in the buffer, two
\* registered subscribers and a record still queued for one of them
C31_Witness ==
    /\ crashed
    /\ Len(recent) >= 2
    /\ clients = Subs
    /\ \E s \in Subs : Len(queue[s]) >= 1
    /\ \E s \in Subs : Len(received[s]) >= 1

\* ---- C32
\* every step is one whole operation on the shared state: an append (with
\* its eviction) to the buffer, an add or a discard of one queue in the
\* registry, a snapshot of the whole registry, or a read of the whole
\* buffer; no step does two of them and none sees half of another
C32_Step ==
    /\ recent' # recent =>
           /\ published' = Append(published, Len(published) + 1)
           /\ recent' = LastN(published', RECENT_MAX)
           /\ <<clients, snap, resp>>' = <<clients, snap, resp>>
    /\ clients' # clients =>
           /\ \E s \in Subs : \/ s \notin clients /\ clients' = clients \cup {s}
                              \/ s \in clients /\ clients' = clients \ {s}
           /\ <<recent, snap, resp>>' = <<recent, snap, resp>>
    /\ (ppc = "broadcast" /\ ppc' = "put") =>
           /\ snap' = clients
           /\ <<recent, clients, resp>>' = <<recent, clients, resp>>
    /\ resp' # resp =>
           /\ \E k \in 1..RECENT_MAX : resp'[2] = LastN(recent, k)
           /\ <<recent, clients, snap>>' = <<recent, clients, snap>>

C33_Jaccard(A, B) ==
    IF A = {} /\ B = {} THEN <<1, 1>>
    ELSE <<Cardinality(A \cap B), Cardinality(A \cup B)>>

\* fraction x is at least fraction y
C33_Geq(x, y) == x[1] * y[2] >= y[1] * x[2]

\* the earliest cluster of cs whose similarity to tok is the maximum
C33_Argmax(tok, cs) ==
    CHOOSE k \in 1..Len(cs) :
        /\ \A j \in 1..Len(cs) :
               C33_Geq(C33_Jaccard(tok, cs[k].tok), C33_Jaccard(tok, cs[j].tok))
        /\ \A j \in 1..(k - 1) :
               ~C33_Geq(C33_Jaccard(tok, cs[j].tok), C33_Jaccard(tok, cs[k].tok))

\* what the claim says one candidate does to the clusters cs
C33_Expected(cs, h, s, thresh, after) ==
    LET tok == words_for_similarity(h)
        joins == /\ Len(cs) >= 1
                 /\ C33_Geq(C33_Jaccard(tok, cs[C33_Argmax(tok, cs)].tok),
                            <<thresh, 100>>)
    IN  IF joins
            THEN LET k == C33_Argmax(tok, cs)
                 IN  /\ Len(after) = Len(cs)
                     /\ after[k].tok = cs[k].tok \cup tok
                     /\ after[k].items = Append(cs[k].items, <<h, s>>)
                     /\ \A j \in 1..Len(cs) : j # k => after[j] = cs[j]
            ELSE /\ Len(after) = Len(cs) + 1
                 /\ after[Len(after)].tok = tok
                 /\ after[Len(after)].items = <<<<h, s>>>>
                 /\ \A j \in 1..Len(cs) : after[j] = cs[j]

\* C33: candidates are processed in input order; a candidate whose greatest
\* Jaccard similarity to the token sets of the open clusters is at least the
\* threshold joins the earliest cluster with that similarity, whose token
\* set becomes the union, and every other cluster is unchanged; any other
\* candidate opens exactly one new cluster of its own and changes none.
C33_GreedyStep ==
    [][cidx' # cidx =>
          /\ cidx' = cidx + 1
          /\ C33_Expected(clusters, scored[cidx][1], scored[cidx][2],
                          sim_thresh, clusters')]_vars

\* ---- C34
\* the position in `items` of the earliest member with the greatest score
C34_FirstMax(items) ==
    CHOOSE i \in 1..Len(items) :
        /\ \A j \in 1..Len(items) : items[j][2] <= items[i][2]
        /\ \A j \in 1..(i - 1) : items[j][2] < items[i][2]

\* C34: after every processed candidate the representative of each cluster
\* is the text of its earliest-added member of greatest score, and `best` is
\* that score: a later member replaces it only with a strictly greater score.
C34_Representative ==
    \A k \in 1..Len(clusters) :
        LET c == clusters[k]
            i == C34_FirstMax(c.items)
        IN  /\ c.repr = c.items[i][1]
            /\ c.best = c.items[i][2]

\* C34 witness: a cluster of three members whose second and third members
\* tie for the greatest score with different texts, represented by the second
C34_Witness ==
    \E k \in 1..Len(clusters) :
        LET c == clusters[k]
        IN  /\ Len(c.items) = 3
            /\ c.items[1][2] < c.items[2][2]
            /\ c.items[2][2] = c.items[3][2]
            /\ c.items[2][1] # c.items[3][1]
            /\ c.repr = c.items[2][1]

\* ---- C35
\* the ratio of two keys reaches the threshold (hundredths)
C35_Close(key, other, threshold) ==
    Ratio(key, other)[1] * Centi >= threshold * Ratio(key, other)[2]

\* what the claim says one cluster c does to the buckets fs
C35_Expected(fs, c, threshold, after) ==
    LET key == norm_for_fuzzy(c[1])
        close == {k \in 1..Len(fs) : C35_Close(key, fs[k].key, threshold)}
    IN  IF close # {}
            THEN LET k == CHOOSE x \in close : \A y \in close : x <= y
                 IN  /\ Len(after) = Len(fs)
                     /\ after[k].key = fs[k].key
                     /\ after[k].score = fs[k].score + c[2]
                     /\ after[k].members = fs[k].members \o c[3]
                     /\ after[k].rep =
                            IF c[2] > fs[k].best THEN c[1] ELSE fs[k].rep
                     /\ \A j \in 1..Len(fs) : j # k => after[j] = fs[j]
            ELSE /\ Len(after) = Len(fs) + 1
                 /\ after[Len(after)].key = key
                 /\ after[Len(after)].rep = c[1]
                 /\ after[Len(after)].score = c[2]
                 /\ after[Len(after)].members = c[3]
                 /\ \A j \in 1..Len(fs) : after[j] = fs[j]

\* three single-member clusters in the given order
C35_Singles(order) ==
    [k \in 1..Len(order) |-> <<order[k], 1, <<<<order[k], 1>>>>>>]

\* the same three clusters end in two groups, in other two groups or in one
\* group, depending on the order in which they are processed
C35_OrderMatters ==
    LET A == "Flood alerted"
        B == "Flood alerts"
        C == "Flood alert"
        abc == fuse_phrasal_near_dupes(C35_Singles(<<A, B, C>>), 90)
        bac == fuse_phrasal_near_dupes(C35_Singles(<<B, A, C>>), 90)
        cab == fuse_phrasal_near_dupes(C35_Singles(<<C, A, B>>), 90)
    IN  /\ Len(abc) = 2 /\ abc[1][3] = <<<<A, 1>>, <<C, 1>>>>
        /\ Len(bac) = 2 /\ bac[1][3] = <<<<B, 1>>, <<C, 1>>>>
        /\ Len(cab) = 1

\* C35: clusters are processed in input order; each joins the first bucket,
\* in order of creation, whose key has a ratio to its normalized
\* representative of at least the threshold, even when a later bucket is
\* closer: the bucket's total grows by the cluster's total, its members by
\* the cluster's members, its representative changes only for a strictly
\* higher total and its key never changes; a cluster close to no bucket
\* opens a new one. The outcome depends on the order of processing.
C35_FirstBucket ==
    [](C35_OrderMatters)
        /\ [][fidx' # fidx =>
                 /\ fidx' = fidx + 1
                 /\ C35_Expected(fused, fclusters[fidx], fuse_thresh, fused')]_vars

\* C35 witness: a cluster has joined the first bucket although the second
\* bucket's key is closer to it, and the keys of the two buckets are not
\* close to each other
C35_Witness ==
    /\ fidx = 4
    /\ Len(fused) = 2
    /\ Len(fused[1].members) = 2
    /\ LET key == norm_for_fuzzy(fclusters[3][1])
           r1 == Ratio(key, fused[1].key)
           r2 == Ratio(key, fused[2].key)
       IN  /\ C35_Close(key, fused[1].key, fuse_thresh)
           /\ r2[1] * r1[2] > r1[1] * r2[2]
           /\ fused[1].members[2][1] = fclusters[3][1]
    /\ ~C35_Close(fused[1].key, fused[2].key, fuse_thresh)
    /\ ~C35_Close(fused[2].key, fused[1].key, fuse_thresh)

\* ---- C36
\* number of occurrences of x in the list l
RECURSIVE C36_Count(_, _)
C36_Count(x, l) ==
    IF Len(l) = 0 THEN 0
    ELSE (IF Head(l) = x THEN 1 ELSE 0) + C36_Count(x, Tail(l))

\* sum of f over the groups 1..n of the returned list
RECURSIVE C36_SumGroups(_, _)
C36_SumGroups(f(_), n) ==
    IF n = 0 THEN 0 ELSE f(fout[n]) + C36_SumGroups(f, n - 1)

\* C36: every candidate occurrence given to cluster_and_merge is a member
\* of exactly one group returned by fuse_phrasal_near_dupes and no member is
\* invented (as multisets, the members of all groups are the candidates);
\* the total of each group is the sum of its members' scores, and the
\* totals of all groups add up to the sum of the candidates' scores.
C36_Conserved ==
    freturned =>
        /\ \A x \in FuseReps \X Scores :
               LET in_group(g) == C36_Count(x, g[3])
               IN  C36_SumGroups(in_group, Len(fout)) = C36_Count(x, fcands)
        /\ \A k \in 1..Len(fout) :
               /\ fout[k][2] = SumScores(fout[k][3])
               /\ \A m \in 1..Len(fout[k][3]) :
                      fout[k][3][m] \in FuseReps \X Scores
        /\ LET total(g) == g[2]
           IN  C36_SumGroups(total, Len(fout)) = SumScores(fcands)

\* C36 witness: three candidates, two of them merged by cluster_and_merge
\* and the third fused with them, returned as one group of three members
C36_Witness ==
    /\ freturned
    /\ Len(fcands) = 3
    /\ Len(fclusters) = 2
    /\ Len(fout) = 1
    /\ Len(fout[1][3]) = 3
    /\ fout[1][2] >= 4

\* ---- C37
\* C37: for every window, every n >= 0 and every max_words >= 0 the call of
\* simple_fallback_headlines returns, and what it returns is at most n
\* phrases of at most max_words words each.
C37_Terminates ==
    /\ (fb_pc = "loop") ~> (fb_pc = "done")
    /\ [](fb_pc = "done" =>
              /\ Len(fb_out) <= fb_args[1]
              /\ \A k \in 1..Len(fb_out) : Len(Split(fb_out[k])) <= fb_args[2])

\* ---- C38
\* C38: the record published for an event carries the event's own title,
\* user (as editor) and delta (as byte_diff), and its iso_time is the UTC
\* rendering of the event's unix time `ts`.
C38_RecordOfEvent ==
    (rpc = "next" /\ rcount >= 1) =>
        /\ rec.title = rev.title
        /\ rec.editor = rev.user
        /\ rec.byte_diff = rev.delta
        /\ rec.iso_time = iso_utc(rev.ts)

\* --------------------- stream.py: one object payload inside event_generator
\* `for event in stream` hands the loop body the object `change`
ReadObject ==
    /\ ppc = "read"
    /\ gstat = "gating"
    /\ ppc' = "gate"
    /\ UNCHANGED <<genVars, genFrame>>

\* the loop body's next test (stream.py:90-125)
ReadGate ==
    /\ ppc = "gate"
    /\ GateStep

\* the dict of stream.py:128-136 is built
ReadBuild ==
    /\ ppc = "gate"
    /\ Yield

\* a test said `continue`: the loop asks the stream for the next event
ReadSkip ==
    /\ ppc = "gate"
    /\ gstat = "rejected"
    /\ ppc' = "read"
    /\ UNCHANGED <<genVars, genFrame>>

\* `yield`: the generator hands the event to its consumer
ReadYield ==
    /\ ppc = "gate"
    /\ gstat = "yielded"
    /\ ppc' = "yielded"
    /\ UNCHANGED <<genVars, genFrame>>

\* mutant of ReadRaise: the error is treated like a `continue`
ReadRaiseSkips ==
    /\ ppc = "gate"
    /\ gstat = "raised"
    /\ ppc' = "read"
    /\ UNCHANGED <<genVars, genFrame>>

\* the loop body raised: the error leaves the for loop and the with block
\* (the connection is closed) and reaches `except Exception`
\* (stream.py:138-142)
ReadRaise ==
    /\ ppc = "gate"
    /\ gstat = "raised"
    /\ OnError
    /\ UNCHANGED genFrame

NextRead ==
    \/ ConnectOk \/ ReadObject \/ ReadGate \/ ReadBuild
    \/ ReadSkip \/ ReadYield \/ ReadRaise \/ Sleep

\* every explored object payload read in the first session of the generator
ReadSpec == GateInit /\ [][NextRead]_vars

\* ---- C39
\* the first six `continue` tests let payload c through
C39_PassesSix(c, s) == \A k \in 1..6 : GateOk(GateOrder[k], c, s)
\* the field value is truthy and has no .get
C39_TruthyNonMapping(v) == v[1] \notin {"null", "map"}
\* the payload passes all seven tests, its timestamp is not a number
C39_BadTimestamp(c, s) ==
    /\ C39_PassesSix(c, s)
    /\ ~size_delta_raises(c)
    /\ GateOk("delta", c, s)
    /\ c.timestamp[1] # "int"
\* the loop body is left for Backoff: the wait is set, the failure counter
\* advanced, nothing yielded
C39_ToBackoff ==
    /\ ppc' = "sleep"
    /\ wait' > 0
    /\ failures' = failures + 1
    /\ event' = <<>>

\* C39 as stated: a payload that passes gates 1-6 and whose length or
\* revision field is a truthy non-mapping, or that passes all seven gates
\* with a timestamp that is no integer, leaves the loop body only for
\* Backoff, never by `continue` or `yield`.
C39_AsStated ==
    [][(/\ ppc = "gate"
        /\ ppc' # "gate"
        /\ \/ /\ C39_PassesSix(change, settings)
              /\ \/ C39_TruthyNonMapping(change.length)
                 \/ C39_TruthyNonMapping(change.revision)
           \/ C39_BadTimestamp(change, settings))
       => C39_ToBackoff]_vars

\* C39 amended: a payload that passes gates 1-6 and whose length field is a
\* truthy non-mapping, or whose length field gives no pair of integers and
\* whose revision field is a truthy non-mapping, or that passes all seven
\* gates with a timestamp that is no integer, leaves the loop body only for
\* Backoff (wait set, failure counter advanced), never by `continue` or
\* `yield`, and no event is yielded.
C39_ErrorEscapes ==
    [][(/\ ppc = "gate"
        /\ ppc' # "gate"
        /\ \/ /\ C39_PassesSix(change, settings)
              /\ \/ C39_TruthyNonMapping(change.length)
                 \/ /\ ~LengthInts(change)
                    /\ C39_TruthyNonMapping(change.revision)
           \/ C39_BadTimestamp(change, settings))
       => C39_ToBackoff]_vars

\* a payload with a non-mapping revision and no length pair, and one with a
\* bad timestamp, have sent the generator into Backoff
C39_Witness ==
    /\ ppc = "sleep"
    /\ failures = 1
    /\ event = <<>>
    /\ C39_PassesSix(change, settings)
    /\ \/ /\ C39_TruthyNonMapping(change.revision)
          /\ ~LengthInts(change)
          /\ ~C39_TruthyNonMapping(change.length)
       \/ C39_BadTimestamp(change, settings)

\* ---- C40
\* the windows returned so far, one after the other in call order
RECURSIVE C40_Concat(_)
C40_Concat(ws) ==
    IF ws = <<>> THEN <<>> ELSE Head(ws) \o C40_Concat(Tail(ws))
\* what the generator has yielded so far, in order
C40_Yielded == [k \in 1..gen_count |-> k]

\* C40: over consecutive collect_window calls on one generator the windows,
\* concatenated in call order, are the generator's output so far, so every
\* yielded event is in exactly one window; while a call is collecting, the
\* events it holds continue the returned windows.
C40_WindowsPartition ==
    /\ wpc \in {"idle", "returned", "propagated"}
           => C40_Concat(windows) = C40_Yielded
    /\ wpc \in {"check", "fetch"}
           => C40_Concat(windows) \o win_out = C40_Yielded

=============================================================================
